---------------------------- MODULE Spec2Model ----------------------------
(***************************************************************************)
(* EffiCode-Analyzer: the cost-analysis visitor (EfficiencyVisitor), the   *)
(* orchestrator (Analizador.analizar) and the parser front end             *)
(* (Parser.validar_sintaxis / parsear over Grammar and LLMService).        *)
(*                                                                         *)
(* Symbolic costs are sympy expressions in the source.  Here an expression *)
(* is a bag of monomials  atom * n^dn * t^dt , where an atom is a constant *)
(* c_i, an unevaluated Sum, or a Max/Min that sympy cannot decide (the     *)
(* constants carry no sign assumption).  The multiplicity of a monomial in *)
(* the bag is its integer coefficient.  t stands for the symbol t_j_mejor. *)
(***************************************************************************)
EXTENDS Integers, Sequences, FiniteSets, Bags, TLC

(***************************************************************************)
(* Bounds of the model                                                     *)
(***************************************************************************)
\* deepest nesting of compound statements in the analysed programs
MaxProf == 2
\* longest straight-line run of assignments
MaxAsign == 3
\* number of Algoritmo objects handed to the analyzer
NumAlgoritmos == 2
\* longest pseudocode text drawn from the whole alphabet, in lexemes
MaxTokens == 4
\* longest reply of the translation service, in lines of code
MaxLineas == 2
\* most fields of kept results that callers have overwritten
MaxCambios == 1
\* last hour of the clock the cache entries are dated with
MaxHoras == 49
\* most uploads of the context book to the remote file store
MaxSubidas == 2

(***************************************************************************)
(* State                                                                   *)
(***************************************************************************)
VARIABLES
    arbol,              \* Algoritmo._arbol_sintactico of each Algoritmo: <<>> is None
    complejidad,        \* Analizador._complejidad: <<>> is None
    ultimo_analisis,    \* Analizador._ultimo_analisis: <<>> is the empty dict
    salida,             \* what the last analizar call returned or raised
    primer_resultado,   \* per Algoritmo, what its first successful analizar returned
    lark,               \* Grammar.parser is a Lark parser (FALSE: None, lark is not installed)
    pseudocodigo,       \* the text handed to the Parser: <<>> before there is one
    validacion,         \* what the last validar_sintaxis call returned
    parseo,             \* what the last parsear call returned or raised
    hilos,              \* per thread running analizar: its position and its local variables
    retenido,           \* per Algoritmo, the Complejidad object its caller kept: its fields now
    alias,              \* the Algoritmo whose kept object is Analizador._complejidad (0: none)
    reglas,             \* Grammar._reglas: rule name -> rule text
    entregado,          \* a caller holds the mapping listar_reglas returned
    consulta,           \* what the last obtener_regla call returned
    reloj,              \* datetime.now(), in hours
    cache,              \* cache_file.json: <<>> when the file does not exist
    remotos,            \* names of the files the remote file store holds
    subidos,            \* number of files uploaded to the store so far
    entorno,            \* the API key is set, the genai library is there, the book exists
    servicio            \* what the last LLMService() construction did

varsAnalizador == <<arbol, complejidad, ultimo_analisis, salida, primer_resultado>>
varsParser == <<lark, pseudocodigo, validacion, parseo>>
varsHilos == <<hilos>>
varsObjetos == <<retenido, alias>>
varsGrammar == <<reglas, entregado, consulta>>
varsLLM == <<reloj, cache, remotos, subidos, entorno, servicio>>
vars == <<varsAnalizador, varsParser, varsHilos, varsObjetos, varsGrammar, varsLLM>>

(***************************************************************************)
(* Grammar: the table of rule texts                                        *)
(***************************************************************************)
\* a stripped, non-empty line of the grammar text: one with a ":" (the pieces
\* of what stands before the first ":", and what follows it), one without,
\* and one that starts with "%"
Linea(piezas, definicion) == [inicio |-> "", dos_puntos |-> TRUE, piezas |-> piezas, resto |-> definicion]
Suelta(texto) == [inicio |-> "", dos_puntos |-> FALSE, piezas |-> <<texto>>, resto |-> ""]
Directiva(texto) == [inicio |-> "%", dos_puntos |-> FALSE, piezas |-> <<texto>>, resto |-> ""]

\* Grammar._pseudocode_grammar.strip().split('\n'), without the blank lines
LineasGramatica ==
    <<
    Linea(<<"?", "start">>, "(sentencia | declaracion_funcion)+"),
      Linea(<<"?", "sentencia">>, "asignacion"),
      Suelta("| if_sentencia"),
      Suelta("| for_sentencia"),
      Suelta("| while_sentencia"),
      Suelta("| call_funcion"),
      Suelta("| return_sentencia"),
      Linea(<<"declaracion_funcion">>, "IDENTIFICADOR \"(\" [parametro_lista] \")\" sentencias"),
      Linea(<<"if_sentencia">>, "\"if\" condicion \"then\" sentencias (\"else\" sentencias)?"),
      Linea(<<"for_sentencia">>, "\"for\" IDENTIFICADOR \"<-\" expresion (\"to\" | \"downto\") expresion \"do\" sentencias"),
      Linea(<<"while_sentencia">>, "\"while\" condicion \"do\" sentencias"),
      Suelta("// Un bloque de sentencias es simplemente una o mas sentencias."),
      Suelta("// La indentacion de Cormen se modela permitiendo secuencias de sentencias."),
      Linea(<<"sentencias">>, "(sentencia)+"),
      Linea(<<"asignacion">>, "variable \"<-\" expresion"),
      Linea(<<"return_sentencia">>, "\"return\" expresion"),
      Linea(<<"parametro_lista">>, "IDENTIFICADOR (\",\" IDENTIFICADOR)*"),
      Linea(<<"argumento_lista">>, "expresion (\",\" expresion)*"),
      Linea(<<"?", "condicion">>, "expresion"),
      Linea(<<"?", "expresion">>, "bool_or"),
      Linea(<<"?", "bool_or">>, "bool_and (\"or\" bool_and)*"),
      Linea(<<"?", "bool_and">>, "bool_not (\"and\" bool_not)*"),
      Linea(<<"?", "bool_not">>, "\"not\" bool_not | comparacion"),
      Linea(<<"?", "comparacion">>, "aritmetica (REL_OP aritmetica)*"),
      Linea(<<"?", "aritmetica">>, "term ((\"+\"|\"-\") term)*"),
      Linea(<<"?", "term">>, "factor ((\"*\"|\"/\"|\"div\"|\"mod\") factor)*"),
      Linea(<<"?", "factor">>, "(\"+\"|\"-\") factor | atomo"),
      Linea(<<"?", "atomo">>, "NUMBER"),
      Suelta("| variable"),
      Suelta("| \"(\" expresion \")\""),
      Suelta("| call_funcion"),
      Linea(<<"variable">>, "IDENTIFICADOR (\".\" IDENTIFICADOR | \"[\" expresion \"]\")*"),
      Linea(<<"call_funcion">>, "IDENTIFICADOR \"(\" [argumento_lista] \")\""),
      Suelta("// Un identificador puede contener letras, numeros, guiones bajos y guiones medios."),
      Linea(<<"IDENTIFICADOR">>, "/[a-zA-Z_][a-zA-Z0-9_-]*/"),
      Linea(<<"REL_OP">>, "\"<=\" | \">=\" | \"/=\" | \"=\" | \"<\" | \">\" //  <= (\\u2264), >= (\\u2265), /= (\\u2260)"),
      Linea(<<"COMMENT">>, "\"//\" /[^\\n]*/"),
      Directiva("import common.NUMBER"),
      Directiva("import common.WS"),
      Directiva("ignore WS"),
      Directiva("ignore COMMENT")
    >>

\* nombre.strip().replace('?', '')
SinInterrogacion(piezas) == SelectSeq(piezas, LAMBDA z : z # "?")[1]

\* Grammar._parse_grammar_to_dict: the lines with a ":" that are no directive,
\* a later line of the same name replacing an earlier one
ParseGrammarToDict ==
    LET con_regla == {k \in DOMAIN LineasGramatica :
                         LineasGramatica[k].inicio # "%" /\ LineasGramatica[k].dos_puntos}
        Nombre(k) == SinInterrogacion(LineasGramatica[k].piezas)
        Ultima(nombre) == CHOOSE k \in con_regla :
                              /\ Nombre(k) = nombre
                              /\ \A j \in con_regla : Nombre(j) = nombre => j <= k
    IN  [nombre \in {Nombre(k) : k \in con_regla} |-> LineasGramatica[Ultima(nombre)].resto]

\* self._reglas = self._parse_grammar_to_dict(); nobody holds the mapping yet
InitGrammar ==
    /\ reglas = ParseGrammarToDict
    /\ entregado = FALSE
    /\ consulta = <<>>

(***************************************************************************)
(* LLMService: the cached reference to the context book                    *)
(***************************************************************************)
\* timedelta(hours=48)
HorasVigencia == 48

\* a cache entry without "file_name" (or with an empty one), and one without
\* "upload_time"
SinNombre == 0
SinFecha == -1

\* what cache_file.json may hold when files 1..n have been uploaded: nothing,
\* or a dictionary with or without each of its two fields
Entradas(n) ==
    {<<>>} \cup {<<[file_name |-> f, upload_time |-> t]>> : f \in 0..n, t \in {SinFecha, 0}}

\* how a call to the remote file store goes: it answers, or it raises an API error
Remoto == {"ok", "error"}

\* hours that pass between two looks at the clock
Pasos == {1, 47}

\* _cargar_cache: the dictionary in the file, None (<<>>) without the file
CargarCache == cache

\* genai.get_file(name=nombre)
GetFile(nombre, api) ==
    IF api = "error" THEN [exc |-> "GoogleAPIError", name |-> SinNombre]
    ELSE IF nombre \in remotos THEN [exc |-> "", name |-> nombre]
    ELSE [exc |-> "NotFound", name |-> SinNombre]

\* a construction step that changes neither the cache file nor the file store
SinCambio(exc, archivo) ==
    [exc |-> exc, archivo |-> archivo, cache |-> cache, remotos |-> remotos, subidos |-> subidos]

\* _subir_y_guardar_libro_en_cache
SubirYGuardarLibroEnCache(api) ==
    IF ~entorno.libro THEN SinCambio("FileNotFoundError", SinNombre)
    ELSE IF api = "error" THEN SinCambio("GoogleAPIError", SinNombre)
    ELSE LET file_obj == subidos + 1
         IN  [exc      |-> "",
              archivo  |-> file_obj,
              cache    |-> <<[file_name |-> file_obj, upload_time |-> reloj]>>,
              remotos  |-> remotos \cup {file_obj},
              subidos  |-> file_obj]

\* _gestionar_cache_libro reusing an entry that is 48 hours old
GestionarCacheLibro_48(api_get, api_subir) ==
    LET cache_data == CargarCache
    IN  IF /\ cache_data # <<>>
           /\ cache_data[1].file_name # SinNombre
           /\ cache_data[1].upload_time # SinFecha
           /\ reloj - cache_data[1].upload_time <= HorasVigencia
        THEN LET file_obj == GetFile(cache_data[1].file_name, api_get)
             IN  IF file_obj.exc = "" THEN SinCambio("", file_obj.name)
                 ELSE IF file_obj.exc = "NotFound" THEN SubirYGuardarLibroEnCache(api_subir)
                 ELSE SinCambio(file_obj.exc, SinNombre)
        ELSE SubirYGuardarLibroEnCache(api_subir)

\* _gestionar_cache_libro
GestionarCacheLibro(api_get, api_subir) ==
    LET cache_data == CargarCache
    IN  IF /\ cache_data # <<>>
           /\ cache_data[1].file_name # SinNombre
           /\ cache_data[1].upload_time # SinFecha
           /\ reloj - cache_data[1].upload_time < HorasVigencia
        THEN LET file_obj == GetFile(cache_data[1].file_name, api_get)
             IN  IF file_obj.exc = "" THEN SinCambio("", file_obj.name)
                 ELSE IF file_obj.exc = "NotFound" THEN SubirYGuardarLibroEnCache(api_subir)
                 ELSE SinCambio(file_obj.exc, SinNombre)
        ELSE SubirYGuardarLibroEnCache(api_subir)

\* LLMService.__init__
NuevoLLMService(api_get, api_subir) ==
    IF ~entorno.api_key THEN SinCambio("ValueError", SinNombre)
    ELSE IF ~entorno.genai THEN SinCambio("RuntimeError", SinNombre)
    ELSE GestionarCacheLibro(api_get, api_subir)

\* LLMService(): the construction, with what it found and what it did
Construir(api_get, api_subir) ==
    /\ subidos < MaxSubidas
    /\ \E r \in {NuevoLLMService(api_get, api_subir)} :
           /\ cache' = r.cache
           /\ remotos' = r.remotos
           /\ subidos' = r.subidos
           /\ servicio' = <<[exc           |-> r.exc,
                              archivo       |-> r.archivo,
                              subidas       |-> r.subidos - subidos,
                              hora          |-> reloj,
                              cache_antes   |-> cache,
                              remotos_antes |-> remotos]>>
    /\ UNCHANGED <<reloj, entorno>>
    /\ UNCHANGED <<varsAnalizador, varsParser, varsHilos, varsObjetos, varsGrammar>>

\* time passes
Pasar(h) ==
    /\ reloj + h <= MaxHoras
    /\ reloj' = reloj + h
    /\ UNCHANGED <<cache, remotos, subidos, entorno, servicio>>
    /\ UNCHANGED <<varsAnalizador, varsParser, varsHilos, varsObjetos, varsGrammar>>

\* the file store drops a file ("Google almacena los archivos por 48 horas")
Expirar(f) ==
    /\ f \in remotos
    /\ remotos' = remotos \ {f}
    /\ UNCHANGED <<reloj, cache, subidos, entorno, servicio>>
    /\ UNCHANGED <<varsAnalizador, varsParser, varsHilos, varsObjetos, varsGrammar>>

\* no service has been constructed, nothing is cached or uploaded
SinServicio ==
    /\ reloj = 0
    /\ cache = <<>>
    /\ remotos = {}
    /\ subidos = 0
    /\ entorno = [api_key |-> TRUE, genai |-> TRUE, libro |-> TRUE]
    /\ servicio = <<>>

(***************************************************************************)
(* sympy expressions                                                       *)
(***************************************************************************)
Cero == EmptyBag

Atomo(k, i, var, lim, args) ==
    [k |-> k, i |-> i, var |-> var, lim |-> lim, args |-> args, n |-> 0, t |-> 0]

\* sympy.Symbol(f'c_{idx}')
Simbolo(idx) == SetToBag({Atomo("c", idx, "", "", {})})

\* a + b  (sympy Add: like terms are collected, 0 is dropped)
Mas(a, b) == a (+) b

\* k * e for a positive integer k
Veces(k, e) == [m \in DOMAIN e |-> k * e[m]]

\* sympy.Sum(e, (var, 1, lim)), left unevaluated until doit()
Sumatoria(e, var, lim) == SetToBag({Atomo("Sum", 0, var, lim, {e})})

\* sympy.Max(a, b) / sympy.Min(a, b): identical arguments collapse, anything
\* else stays symbolic because no c_i has a known sign
MaxMin(k, a, b) == IF a = b THEN a ELSE SetToBag({Atomo(k, 0, "", "", {a, b})})

Maximo(a, b) == MaxMin("Max", a, b)

Minimo(a, b) == MaxMin("Min", a, b)

\* e * n and e * t
PorN(e) ==
    LET S == {[m EXCEPT !.n = @ + 1] : m \in DOMAIN e}
    IN  [x \in S |-> e[[x EXCEPT !.n = @ - 1]]]

PorT(e) ==
    LET S == {[m EXCEPT !.t = @ + 1] : m \in DOMAIN e}
    IN  [x \in S |-> e[[x EXCEPT !.t = @ - 1]]]

\* eval_sum for a summand free of the index: f * (b - a + 1) with a = 1
PorLimite(e, lim) ==
    CASE lim = "n"   -> PorN(e)
      [] lim = "n+1" -> Mas(PorN(e), e)
      [] lim = "t"   -> PorT(e)
      [] lim = "t+1" -> Mas(PorT(e), e)
      [] lim = "1"   -> e
      [] lim = "2"   -> Mas(e, e)

RECURSIVE Doit(_)
RECURSIVE DoitSobre(_, _)
RECURSIVE DoitTermino(_)

\* expr.doit(): evaluates every Sum, rebuilding Max/Min over evaluated arguments
Doit(e) == DoitSobre(e, DOMAIN e)

DoitSobre(e, S) ==
    IF S = {} THEN Cero
    ELSE LET m == CHOOSE x \in S : TRUE
         IN  Mas(Veces(e[m], DoitTermino(m)), DoitSobre(e, S \ {m}))

DoitTermino(m) ==
    LET hechos == {Doit(a) : a \in m.args}
        uno    == CHOOSE x \in hechos : TRUE
        otro   == CHOOSE x \in hechos : x # uno
    IN  CASE m.k = "c"   -> SetToBag({m})
          [] m.k = "Sum" -> PorLimite(uno, m.lim)
          [] OTHER       -> IF Cardinality(hechos) = 1 THEN uno
                            ELSE MaxMin(m.k, uno, otro)

RECURSIVE DependeDeN(_)
\* n in expr.free_symbols
DependeDeN(e) ==
    \E m \in DOMAIN e :
        \/ m.n > 0
        \/ m.k = "Sum" /\ m.lim \in {"n", "n+1"}
        \/ \E a \in m.args : DependeDeN(a)

GradoMax(e) == CHOOSE d \in {m.n : m \in DOMAIN e} : \A m \in DOMAIN e : m.n <= d

\* sympy.O(expr, (n, oo)).args[0] for an evaluated expression:
\*   the zero expression keeps 0; an expression free of n gives 1; a polynomial
\*   in n (coefficients may hold n-free Max/Min) gives n**d; an expression with
\*   a Max/Min over n-dependent arguments has no monomial leading term and is
\*   kept as an opaque term.
Orden(e) ==
    IF e = Cero THEN [k |-> "0", d |-> 0, e |-> Cero]
    ELSE IF \E m \in DOMAIN e : m.k \in {"Max", "Min"} /\ \E a \in m.args : DependeDeN(a)
         THEN [k |-> "otro", d |-> 0, e |-> e]
         ELSE [k |-> "n**", d |-> GradoMax(e), e |-> Cero]

Uno == [k |-> "n**", d |-> 0, e |-> Cero]

Potencia(d) == [k |-> "n**", d |-> d, e |-> Cero]


(***************************************************************************)
(* Python AST of the translated program (ast.parse)                        *)
(***************************************************************************)
\* a statement; iter holds the arguments of the range(...) a for loop iterates
\* over, range(n) unless said otherwise
Nodo(t, target, body, orelse) ==
    [t |-> t, ln |-> 0, target |-> target, iter |-> IF t = "For" THEN <<"n">> ELSE <<>>,
     body |-> body, orelse |-> orelse]

Hoja(t) == Nodo(t, "", <<>>, <<>>)

Asignacion == Hoja("Assign")

\* statement kinds without a visit_ method of their own
Hojas == {Asignacion, Hoja("Return"), Hoja("Expr"), Hoja("Break")}

Clases == {"If", "IfA", "IfElse", "For", "ForA", "While", "WhileA"}

NombreBucle(prof) == <<"i", "j", "k", "l", "m">>[prof + 1]

\* a compound statement of class c around statement s; the classes ending in A
\* put an assignment before s in the body
Compuesto(c, s, prof) ==
    CASE c = "If"     -> Nodo("If", "", <<s>>, <<>>)
      [] c = "IfA"    -> Nodo("If", "", <<Asignacion, s>>, <<>>)
      [] c = "IfElse" -> Nodo("If", "", <<s>>, <<Asignacion>>)
      [] c = "For"    -> Nodo("For", NombreBucle(prof), <<s>>, <<>>)
      [] c = "ForA"   -> Nodo("For", NombreBucle(prof), <<Asignacion, s>>, <<>>)
      [] c = "While"  -> Nodo("While", "", <<s>>, <<>>)
      [] c = "WhileA" -> Nodo("While", "", <<Asignacion, s>>, <<>>)

RECURSIVE Torres(_)
\* statements nested at most h deep
Torres(h) ==
    IF h = 0 THEN Hojas
    ELSE Hojas \cup {Compuesto(c, s, MaxProf - h) : c \in Clases, s \in Torres(h - 1)}

\* k assignments in a row
Plano(k) == [x \in 1..k |-> Asignacion]

RECURSIVE Anidado(_)
\* k for loops nested around an assignment, an assignment before each inner loop
Anidado(k) ==
    IF k = 0 THEN Asignacion
    ELSE Nodo("For", NombreBucle(k), IF k = 1 THEN <<Asignacion>> ELSE <<Asignacion, Anidado(k - 1)>>, <<>>)

EnDef(cuerpo) == <<Nodo("FunctionDef", "", cuerpo, <<>>)>>

\* the integer literals that occur as loop bounds, and their values
Literales == {"1", "2", "3"}
Valor(x) == CASE x = "1" -> 1 [] x = "2" -> 2 [] x = "3" -> 3

\* range(a, b) with two literal bounds, and with a bound that is a name
Rangos == {<<"1", "3">>, <<"1", "n">>}

\* for i in range(a, b): cuerpo
ForRango(rango, cuerpo) == [Nodo("For", "i", cuerpo, <<>>) EXCEPT !.iter = rango]

\* bodies of the loops over a range(a, b): one statement, or an inner loop
CuerposRango == Hojas \cup {Nodo("For", "j", <<Asignacion>>, <<>>)}

\* bodies of a function declared inside a loop: a statement, or a loop of its own
\* that a break leaves
CuerposDef == {Asignacion, Hoja("Return"), Nodo("While", "", <<Hoja("Break")>>, <<>>)}

\* while c: def f(): cuerpo
DefEnBucle(s) == Nodo("While", "", EnDef(<<s>>), <<>>)

Modulos ==
    LET sueltos == {<<s>> : s \in Torres(MaxProf)} \cup {Plano(k) : k \in 2..MaxAsign}
    IN  sueltos \cup {EnDef(<<s>>) : s \in Torres(1)} \cup {EnDef(Plano(k)) : k \in 2..MaxAsign}
                \cup {<<ForRango(r, <<s>>)>> : r \in Rangos, s \in CuerposRango}
                \cup {<<DefEnBucle(s)>> : s \in CuerposDef}

RECURSIVE NumSeq(_, _)
RECURSIVE NumNodo(_, _)
\* lineno as ast.parse gives it with one statement per line: a compound statement
\* takes its own line, then its body, then (after a line for "else:") its orelse
NumNodo(s, ln) ==
    LET b == NumSeq(s.body, ln + 1)
        o == IF s.orelse = <<>> THEN [seq |-> <<>>, sig |-> b.sig]
             ELSE NumSeq(s.orelse, b.sig + 1)
    IN  [nodo |-> [s EXCEPT !.ln = ln, !.body = b.seq, !.orelse = o.seq], sig |-> o.sig]

NumSeq(seq, ln) ==
    IF seq = <<>> THEN [seq |-> <<>>, sig |-> ln]
    ELSE LET h == NumNodo(Head(seq), ln)
             r == NumSeq(Tail(seq), h.sig)
         IN  [seq |-> <<h.nodo>> \o r.seq, sig |-> r.sig]

\* Servicios.Ast.AST(codigo): the wrapper holding ast.parse(codigo)
AST(modulo) == [_arbol |-> NumSeq(modulo, 1).seq]

Programas == {AST(m) : m \in Modulos}

RECURSIVE HayNodo(_, _)
RECURSIVE HayNodoEn(_, _)
\* any(isinstance(sn, T) for sn in ast.walk(node)): the node itself and every descendant
HayNodo(node, T) == node.t \in T \/ HayNodoEn(node.body, T) \/ HayNodoEn(node.orelse, T)

HayNodoEn(seq, T) == \E x \in 1..Len(seq) : HayNodo(seq[x], T)

(***************************************************************************)
(* EfficiencyVisitor                                                       *)
(***************************************************************************)
\* a visitor whose constant counter carries on from the previous analysis
NuevoVisitor_persistente ==
    [const_idx       |-> 1 + (IF ultimo_analisis = <<>> THEN 0
                              ELSE Len(ultimo_analisis[1].desglose_costos)),
     line_costs      |-> <<>>,
     worst_case_cost |-> Cero,
     best_case_cost  |-> Cero]

\* EfficiencyVisitor.__init__
NuevoVisitor ==
    [const_idx |-> 1, line_costs |-> <<>>, worst_case_cost |-> Cero, best_case_cost |-> Cero]

\* _get_const: the constant handed out and the visitor with its counter advanced
GetConst(v) == [const |-> Simbolo(v.const_idx), v |-> [v EXCEPT !.const_idx = @ + 1]]

\* cost_str of _add_cost: "Peor: w" and, when they differ, ", Mejor: b"
CostStr(worst, best) == [peor |-> worst, mejor |-> IF worst # best THEN {best} ELSE {}]

\* _add_cost putting the new entry at the head of the trace
AddCost_alfrente(v, node, description, worst_cost, best_cost) ==
    [v EXCEPT !.worst_case_cost = Mas(@, worst_cost),
              !.best_case_cost  = Mas(@, best_cost),
              !.line_costs      = <<[ln   |-> node.ln,
                                     cost |-> CostStr(worst_cost, best_cost),
                                     desc |-> <<description>>]>> \o @]

\* _add_cost
AddCost(v, node, description, worst_cost, best_cost) ==
    [v EXCEPT !.worst_case_cost = Mas(@, worst_cost),
              !.best_case_cost  = Mas(@, best_cost),
              !.line_costs      = Append(@, [ln   |-> node.ln,
                                             cost |-> CostStr(worst_cost, best_cost),
                                             desc |-> <<description>>])]

\* [(ln, c, f"  ({tag}) {d}") for ln, c, d in line_costs]
Etiquetar(tag, line_costs) ==
    [x \in 1..Len(line_costs) |-> [line_costs[x] EXCEPT !.desc = <<tag>> \o @]]

\* tj_mejor taken as n whether or not the loop holds a break
TjMejor_n(hay_break) == "n"

\* tj_mejor of visit_While: 1 when the loop holds a break, else the symbol t_j_mejor
TjMejor(hay_break) == IF hay_break THEN "1" ELSE "t"

\* the limit tj + 1
MasUno(lim) == CASE lim = "n" -> "n+1" [] lim = "t" -> "t+1" [] lim = "1" -> "2"

RECURSIVE HaySalidaTemprana(_)
\* hay_salida_temprana of Analizador._analizar_ast: some For/While holds a
\* Break or a Return anywhere below it
HaySalidaTemprana(seq) ==
    \E x \in 1..Len(seq) :
        \/ seq[x].t \in {"For", "While"} /\ HayNodo(seq[x], {"Break", "Return"})
        \/ HaySalidaTemprana(seq[x].body)
        \/ HaySalidaTemprana(seq[x].orelse)

RECURSIVE Visit(_, _)
RECURSIVE VisitSeq(_, _)
RECURSIVE VisitAssign(_, _)
RECURSIVE VisitIf(_, _)
RECURSIVE VisitFor_salida(_, _)
RECURSIVE VisitFor(_, _)
RECURSIVE VisitWhile(_, _)
RECURSIVE GenericVisit(_, _)

\* for sub_node in nodes: visitor.visit(sub_node)
VisitSeq(v, seq) == IF seq = <<>> THEN v ELSE VisitSeq(Visit(v, Head(seq)), Tail(seq))

\* NodeVisitor.generic_visit: visits the child statements with the same visitor
GenericVisit(v, node) == VisitSeq(VisitSeq(v, node.body), node.orelse)

VisitAssign(v, node) ==
    LET g == GetConst(v)
    IN  GenericVisit(AddCost(g.v, node, "Asignacion", g.const, g.const), node)

\* visit_If extending the trace with the else branch before the then branch
VisitIf_elseprimero(v, node) ==
    LET g    == GetConst(v)
        v1   == AddCost(g.v, node, "Evaluacion de condicion if", g.const, g.const)
        vif  == VisitSeq(NuevoVisitor, node.body)
        vel  == IF node.orelse # <<>> THEN VisitSeq(NuevoVisitor, node.orelse) ELSE NuevoVisitor
        peor_rama  == Maximo(vif.worst_case_cost, vel.worst_case_cost)
        mejor_rama == Minimo(vif.best_case_cost, vel.best_case_cost)
    IN  [v1 EXCEPT !.worst_case_cost = Mas(@, peor_rama),
                   !.best_case_cost  = Mas(@, mejor_rama),
                   !.line_costs      = @ \o (IF node.orelse # <<>>
                                             THEN Etiquetar("(Rama else)", vel.line_costs)
                                             ELSE <<>>)
                                         \o Etiquetar("(Rama if)", vif.line_costs)]

VisitIf(v, node) ==
    LET g    == GetConst(v)
        v1   == AddCost(g.v, node, "Evaluacion de condicion if", g.const, g.const)
        vif  == VisitSeq(NuevoVisitor, node.body)
        vel  == IF node.orelse # <<>> THEN VisitSeq(NuevoVisitor, node.orelse) ELSE NuevoVisitor
        peor_rama  == Maximo(vif.worst_case_cost, vel.worst_case_cost)
        mejor_rama == Minimo(vif.best_case_cost, vel.best_case_cost)
    IN  [v1 EXCEPT !.worst_case_cost = Mas(@, peor_rama),
                   !.best_case_cost  = Mas(@, mejor_rama),
                   !.line_costs      = @ \o Etiquetar("(Rama if)", vif.line_costs)
                                         \o (IF node.orelse # <<>>
                                             THEN Etiquetar("(Rama else)", vel.line_costs)
                                             ELSE <<>>)]

\* visit_For with the early-exit rule of visit_While: one best-case iteration
\* when the loop holds a break
VisitFor_salida(v, node) ==
    LET g  == GetConst(v)
        v1 == AddCost(g.v, node, "Inicializacion y test del bucle for", g.const, g.const)
        vc == VisitSeq(NuevoVisitor, node.body)
        tj == IF HayNodo(node, {"Break"}) THEN "1" ELSE "n"
    IN  [v1 EXCEPT !.worst_case_cost = Mas(@, Sumatoria(vc.worst_case_cost, node.target, "n")),
                   !.best_case_cost  = Mas(@, Sumatoria(vc.best_case_cost, node.target, tj)),
                   !.line_costs      = @ \o Etiquetar("(Dentro de for)", vc.line_costs)]

\* visit_For that stops after one best-case iteration when the loop holds a
\* break or a return
VisitFor_retorno(v, node) ==
    LET g  == GetConst(v)
        v1 == AddCost(g.v, node, "Inicializacion y test del bucle for", g.const, g.const)
        vc == VisitSeq(NuevoVisitor, node.body)
        tj == IF HayNodo(node, {"Break", "Return"}) THEN "1" ELSE "n"
    IN  [v1 EXCEPT !.worst_case_cost = Mas(@, Sumatoria(vc.worst_case_cost, node.target, "n")),
                   !.best_case_cost  = Mas(@, Sumatoria(vc.best_case_cost, node.target, tj)),
                   !.line_costs      = @ \o Etiquetar("(Dentro de for)", vc.line_costs)]

\* visit_For taking the trip count of a range whose two bounds are literals
VisitFor_literal(v, node) ==
    LET g  == GetConst(v)
        v1 == AddCost(g.v, node, "Inicializacion y test del bucle for", g.const, g.const)
        vc == VisitSeq(NuevoVisitor, node.body)
        limite_superior ==
            IF Len(node.iter) = 2 /\ node.iter[1] \in Literales /\ node.iter[2] \in Literales
            THEN <<"1", "2">>[Valor(node.iter[2]) - Valor(node.iter[1])]
            ELSE "n"
    IN  [v1 EXCEPT !.worst_case_cost = Mas(@, Sumatoria(vc.worst_case_cost, node.target, limite_superior)),
                   !.best_case_cost  = Mas(@, Sumatoria(vc.best_case_cost, node.target, limite_superior)),
                   !.line_costs      = @ \o Etiquetar("(Dentro de for)", vc.line_costs)]

\* visit_For: limite_superior = self.n, node.iter is not looked at
VisitFor(v, node) ==
    LET g  == GetConst(v)
        v1 == AddCost(g.v, node, "Inicializacion y test del bucle for", g.const, g.const)
        vc == VisitSeq(NuevoVisitor, node.body)
    IN  [v1 EXCEPT !.worst_case_cost = Mas(@, Sumatoria(vc.worst_case_cost, node.target, "n")),
                   !.best_case_cost  = Mas(@, Sumatoria(vc.best_case_cost, node.target, "n")),
                   !.line_costs      = @ \o Etiquetar("(Dentro de for)", vc.line_costs)]

\* visit_While with the two trip counts exchanged: the worst case runs tj_mejor
\* times and the best case n times
VisitWhile_cruzado(v, node) ==
    LET tj_peor  == TjMejor(HayNodo(node, {"Break"}))
        tj_mejor == "n"
        vc == VisitSeq(NuevoVisitor, node.body)
        g  == GetConst(v)
        v1 == AddCost(g.v, node, "Test de condicion while",
                      Sumatoria(g.const, "i", MasUno(tj_peor)),
                      Sumatoria(g.const, "i", MasUno(tj_mejor)))
    IN  [v1 EXCEPT !.worst_case_cost = Mas(@, Sumatoria(vc.worst_case_cost, "j", tj_peor)),
                   !.best_case_cost  = Mas(@, Sumatoria(vc.best_case_cost, "j", tj_mejor)),
                   !.line_costs      = @ \o Etiquetar("(Dentro de while)", vc.line_costs)]

VisitWhile(v, node) ==
    LET tj_peor  == "n"
        tj_mejor == TjMejor(HayNodo(node, {"Break"}))
        vc == VisitSeq(NuevoVisitor, node.body)
        g  == GetConst(v)
        v1 == AddCost(g.v, node, "Test de condicion while",
                      Sumatoria(g.const, "i", MasUno(tj_peor)),
                      Sumatoria(g.const, "i", MasUno(tj_mejor)))
    IN  [v1 EXCEPT !.worst_case_cost = Mas(@, Sumatoria(vc.worst_case_cost, "j", tj_peor)),
                   !.best_case_cost  = Mas(@, Sumatoria(vc.best_case_cost, "j", tj_mejor)),
                   !.line_costs      = @ \o Etiquetar("(Dentro de while)", vc.line_costs)]

\* NodeVisitor.visit: dispatch on the node class
Visit(v, node) ==
    CASE node.t = "Assign" -> VisitAssign(v, node)
      [] node.t = "If"     -> VisitIf(v, node)
      [] node.t = "For"    -> VisitFor(v, node)
      [] node.t = "While"  -> VisitWhile(v, node)
      [] OTHER             -> GenericVisit(v, node)

(***************************************************************************)
(* Analizador                                                              *)
(***************************************************************************)
Algoritmos == 1..NumAlgoritmos

\* str(expr): the printed form of an expression
Str(e) == <<"str", e>>

\* Analizador._analizar_eficiencia
AnalizarEficiencia(ast_obj) ==
    LET visitor  == VisitSeq(NuevoVisitor, ast_obj._arbol)
        t_n_peor  == Doit(visitor.worst_case_cost)
        t_n_mejor == Doit(visitor.best_case_cost)
    IN  [desglose_costos        |-> visitor.line_costs,
         funcion_peor_caso      |-> t_n_peor,
         funcion_mejor_caso     |-> t_n_mejor,
         funcion_peor_caso_str  |-> Str(t_n_peor),
         funcion_mejor_caso_str |-> Str(t_n_mejor)]

NoAplicable == <<"No aplicable">>

\* the derivation that reports the worst-case bound as Theta when the bounds differ
Derivar_peor(id, ua) ==
    LET orden_peor     == Orden(ua.funcion_peor_caso)
        orden_mejor    == Orden(ua.funcion_mejor_caso)
        notacion_o     == <<"O", orden_peor>>
        notacion_omega == <<"Omega", orden_mejor>>
        notacion_theta == <<"Theta", orden_peor>>
    IN  [id             |-> id,
         notacion_o     |-> notacion_o,
         notacion_omega |-> notacion_omega,
         notacion_theta |-> notacion_theta,
         justificacion  |->
             [funcion_peor  |-> ua.funcion_peor_caso_str,
              funcion_mejor |-> ua.funcion_mejor_caso_str,
              lineas        |-> ua.desglose_costos,
              peor          |-> <<orden_peor, notacion_o>>,
              mejor         |-> <<orden_mejor, notacion_omega>>,
              promedio      |-> <<"coinciden", notacion_theta>>]]

\* steps 2 to 5 of Analizador.analizar: the Complejidad built from the analysis
Derivar(id, ua) ==
    LET orden_peor     == Orden(ua.funcion_peor_caso)
        orden_mejor    == Orden(ua.funcion_mejor_caso)
        notacion_o     == <<"O", orden_peor>>
        notacion_omega == <<"Omega", orden_mejor>>
        notacion_theta == IF orden_peor = orden_mejor THEN <<"Theta", orden_peor>>
                          ELSE NoAplicable
    IN  [id             |-> id,
         notacion_o     |-> notacion_o,
         notacion_omega |-> notacion_omega,
         notacion_theta |-> notacion_theta,
         justificacion  |->
             [funcion_peor  |-> ua.funcion_peor_caso_str,
              funcion_mejor |-> ua.funcion_mejor_caso_str,
              lineas        |-> ua.desglose_costos,
              peor          |-> <<orden_peor, notacion_o>>,
              mejor         |-> <<orden_mejor, notacion_omega>>,
              promedio      |-> IF notacion_theta # NoAplicable
                                THEN <<"coinciden", notacion_theta>>
                                ELSE <<"difieren">>]]

\* analizar storing the analysis record but not the Complejidad it returns
AnalisisCompleto_singuardar(a) ==
    LET ua == AnalizarEficiencia(arbol[a][1])
        c  == Derivar(a, ua)
    IN  [exc |-> "", ultimo |-> <<ua>>, comp |-> complejidad, ret |-> <<c>>]

\* analizar from its first analysis step on: what it stores and returns
AnalisisCompleto(a) ==
    LET ua == AnalizarEficiencia(arbol[a][1])
        c  == Derivar(a, ua)
    IN  [exc |-> "", ultimo |-> <<ua>>, comp |-> <<c>>, ret |-> <<c>>]

\* the variant that clears the stored results before it looks at the algorithm
ResultadoAnalizar_borra(a) ==
    IF arbol[a] = <<>>
    THEN [exc |-> "ValueError", ultimo |-> <<>>, comp |-> <<>>, ret |-> <<>>]
    ELSE AnalisisCompleto(a)

\* Analizador.analizar(algoritmo) for Algoritmo a: the exception raised (or ""),
\* the new _ultimo_analisis and _complejidad, and the value returned
ResultadoAnalizar(a) ==
    IF arbol[a] = <<>>
    THEN [exc |-> "ValueError", ultimo |-> ultimo_analisis, comp |-> complejidad, ret |-> <<>>]
    ELSE AnalisisCompleto(a)

\* self._ultimo_analisis.get(clave, defecto): the record is {} until the first
\* analysis is stored
UltimoGet(clave, defecto) ==
    IF ultimo_analisis # <<>> /\ clave \in DOMAIN ultimo_analisis[1]
    THEN ultimo_analisis[1][clave]
    ELSE defecto

\* the text inside the parentheses: "1", "n" or f"n^{profundidad}"
PotenciaStr(profundidad) ==
    IF profundidad = 0 THEN <<"1">>
    ELSE IF profundidad = 1 THEN <<"n">>
    ELSE <<"n^", profundidad>>

\* Analizador.calcular_o
CalcularO == <<"O">> \o PotenciaStr(UltimoGet("max_profundidad", 0))

\* Analizador.calcular_omega
CalcularOmega ==
    LET profundidad     == UltimoGet("max_profundidad", 0)
        salida_temprana == UltimoGet("hay_salida_temprana", FALSE)
    IN  IF profundidad = 0 THEN <<"Omega", "1">>
        ELSE IF salida_temprana THEN <<"Omega", "1">>
        ELSE <<"Omega">> \o PotenciaStr(profundidad)

\* Analizador.calcular_theta: o_grande with its letter replaced when the two
\* texts agree after their letters are removed, else a sentence naming o_grande
CalcularTheta ==
    LET o_grande     == CalcularO
        omega_grande == CalcularOmega
    IN  IF Tail(o_grande) = Tail(omega_grande)
        THEN <<"Theta">> \o Tail(o_grande)
        ELSE <<"No se puede determinar una cota Theta simple", o_grande>>

\* a thread that has not called analizar yet: no locals
HiloEnReposo == [pc |-> "reposo", local |-> <<>>, ret |-> <<>>, exc |-> ""]

\* programs an Algoritmo may be given: the first takes any program of the
\* catalogue, each other one a fixed nest of for loops
ProgramasDe(a) == IF a = 1 THEN Programas ELSE {AST(<<Anidado(a - 1)>>)}

\* Algoritmo.arbol_sintactico = ast (set once per Algoritmo)
AsignarArbol(a) ==
    /\ arbol[a] = <<>>
    /\ \E p \in ProgramasDe(a) : arbol' = [arbol EXCEPT ![a] = <<p>>]
    /\ UNCHANGED <<complejidad, ultimo_analisis, salida, primer_resultado>>
    /\ UNCHANGED <<varsParser, varsHilos, varsObjetos, varsGrammar, varsLLM>>

\* analizar writing the new fields into the Complejidad object the Analizador
\* already holds, where there is one
Retener_enlugar(a, r) ==
    IF r.exc # "" THEN [retenido |-> retenido, alias |-> alias]
    ELSE IF alias # 0
         THEN [retenido |-> [retenido EXCEPT ![alias] = r.ret], alias |-> alias]
         ELSE IF retenido[a] = <<>>
              THEN [retenido |-> [retenido EXCEPT ![a] = r.ret], alias |-> a]
              ELSE [retenido |-> retenido, alias |-> 0]

\* the objects after analizar(a) gave result r: a successful call builds a new
\* Complejidad, binds Analizador._complejidad to it and returns it; the caller
\* of the first successful call for an Algoritmo keeps the object
Retener(a, r) ==
    IF r.exc # "" THEN [retenido |-> retenido, alias |-> alias]
    ELSE IF retenido[a] = <<>>
         THEN [retenido |-> [retenido EXCEPT ![a] = r.ret], alias |-> a]
         ELSE [retenido |-> retenido, alias |-> 0]

\* analizador.analizar(algoritmo)
Analizar(a) ==
    \E r \in {ResultadoAnalizar(a)} :
        /\ ultimo_analisis' = r.ultimo
        /\ complejidad' = r.comp
        /\ salida' = <<[id       |-> a,
                        exc      |-> r.exc,
                        ret      |-> r.ret,
                        repetida |-> primer_resultado[a] # <<>>,
                        antes    |-> complejidad]>>
        /\ primer_resultado' =
               IF r.exc = "" /\ primer_resultado[a] = <<>>
               THEN [primer_resultado EXCEPT ![a] = r.ret]
               ELSE primer_resultado
        /\ retenido' = Retener(a, r).retenido
        /\ alias' = Retener(a, r).alias
        /\ UNCHANGED arbol
        /\ UNCHANGED <<varsParser, varsHilos, varsGrammar, varsLLM>>

InitAnalizador ==
    /\ arbol = [a \in Algoritmos |-> <<>>]
    /\ complejidad = <<>>
    /\ ultimo_analisis = <<>>
    /\ salida = <<>>
    /\ primer_resultado = [a \in Algoritmos |-> <<>>]
    /\ hilos = [h \in Algoritmos |-> HiloEnReposo]
    /\ retenido = [a \in Algoritmos |-> <<>>]
    /\ alias = 0

\* the analyzer and its algorithms as constructed; no text has reached the Parser
Init ==
    /\ InitAnalizador
    /\ SinServicio
    /\ lark = TRUE
    /\ InitGrammar
    /\ pseudocodigo = <<>>
    /\ validacion = <<>>
    /\ parseo = <<>>

Next ==
    \/ \E a \in Algoritmos : AsignarArbol(a)
    \/ \E a \in Algoritmos : Analizar(a)

Spec == Init /\ [][Next]_vars

(***************************************************************************)
(* analizar called from several threads on one Analizador                  *)
(***************************************************************************)
\* the local variables of analizar that are read from self._ultimo_analisis,
\* before any of them is read
SinLeer ==
    [funcion_peor_caso      |-> <<>>,
     funcion_mejor_caso     |-> <<>>,
     funcion_peor_caso_str  |-> <<>>,
     funcion_mejor_caso_str |-> <<>>,
     desglose_costos        |-> <<>>]

\* the analysis a thread has put together from its reads
Leido(local) ==
    [funcion_peor_caso      |-> local.funcion_peor_caso[1],
     funcion_mejor_caso     |-> local.funcion_mejor_caso[1],
     funcion_peor_caso_str  |-> local.funcion_peor_caso_str[1],
     funcion_mejor_caso_str |-> local.funcion_mejor_caso_str[1],
     desglose_costos        |-> local.desglose_costos[1]]

\* the thread of Algoritmo h moves from pc to sig, with new locals
Avanzar(h, sig, local) == hilos' = [hilos EXCEPT ![h].pc = sig, ![h].local = local]

\* if not algoritmo.arbol_sintactico: raise ValueError
H_Comprobar(h) ==
    /\ hilos[h].pc = "reposo"
    /\ hilos' = IF arbol[h] = <<>>
                THEN [hilos EXCEPT ![h].pc = "fin", ![h].exc = "ValueError"]
                ELSE [hilos EXCEPT ![h].pc = "analizar", ![h].local = SinLeer]
    /\ UNCHANGED <<varsAnalizador, varsParser, varsObjetos, varsGrammar, varsLLM>>

\* self._ultimo_analisis = self._analizar_eficiencia(algoritmo.arbol_sintactico)
H_GuardarAnalisis(h) ==
    /\ hilos[h].pc = "analizar"
    /\ ultimo_analisis' = <<AnalizarEficiencia(arbol[h][1])>>
    /\ Avanzar(h, "peor", hilos[h].local)
    /\ UNCHANGED <<arbol, complejidad, salida, primer_resultado>>
    /\ UNCHANGED <<varsParser, varsObjetos, varsGrammar, varsLLM>>

\* one read of self._ultimo_analisis[campo] into a local
H_Leer(h, pc, campo, sig) ==
    /\ hilos[h].pc = pc
    /\ Avanzar(h, sig, [hilos[h].local EXCEPT ![campo] = <<ultimo_analisis[1][campo]>>])
    /\ UNCHANGED <<varsAnalizador, varsParser, varsObjetos, varsGrammar, varsLLM>>

\* t_n_peor = self._ultimo_analisis["funcion_peor_caso"]
H_LeerPeor(h) == H_Leer(h, "peor", "funcion_peor_caso", "mejor")

\* t_n_mejor = self._ultimo_analisis["funcion_mejor_caso"]
H_LeerMejor(h) == H_Leer(h, "mejor", "funcion_mejor_caso", "peor_str")

\* {self._ultimo_analisis['funcion_peor_caso_str']} in the justification
H_LeerPeorStr(h) == H_Leer(h, "peor_str", "funcion_peor_caso_str", "mejor_str")

\* {self._ultimo_analisis['funcion_mejor_caso_str']} in the justification
H_LeerMejorStr(h) == H_Leer(h, "mejor_str", "funcion_mejor_caso_str", "desglose")

\* for linea, costo, desc in self._ultimo_analisis['desglose_costos']
H_LeerDesglose(h) == H_Leer(h, "desglose", "desglose_costos", "guardar")

\* self.complejidad = Complejidad(id=algoritmo.id, ...): a new object, kept by nobody yet
H_GuardarComplejidad(h) ==
    /\ hilos[h].pc = "guardar"
    /\ complejidad' = <<Derivar(h, Leido(hilos[h].local))>>
    /\ alias' = 0
    /\ Avanzar(h, "devolver", hilos[h].local)
    /\ UNCHANGED <<arbol, ultimo_analisis, salida, primer_resultado, retenido>>
    /\ UNCHANGED <<varsParser, varsGrammar, varsLLM>>

\* return self.complejidad
H_Devolver(h) ==
    /\ hilos[h].pc = "devolver"
    /\ hilos' = [hilos EXCEPT ![h].pc = "fin", ![h].ret = complejidad]
    /\ UNCHANGED <<varsAnalizador, varsParser, varsObjetos, varsGrammar, varsLLM>>

\* the program of the Algoritmo thread h analyses: h assignments in a row, or
\* h nested for loops
ProgramasHilo(h) == {AST(Plano(h)), AST(<<Anidado(h)>>)}

\* Algoritmo h as its thread finds it: not parsed, or holding one of its programs
ArbolesDe(h) == {<<>>} \cup {<<p>> : p \in ProgramasHilo(h)}

ArbolesHilo == UNION {ArbolesDe(h) : h \in Algoritmos}

\* one Analizador, and one thread per Algoritmo about to call analizar on it;
\* an Algoritmo has been parsed or not
InitHilos ==
    /\ SinServicio
    /\ arbol \in {f \in [Algoritmos -> ArbolesHilo] : \A h \in Algoritmos : f[h] \in ArbolesDe(h)}
    /\ complejidad = <<>>
    /\ ultimo_analisis = <<>>
    /\ salida = <<>>
    /\ primer_resultado = [a \in Algoritmos |-> <<>>]
    /\ hilos = [h \in Algoritmos |-> HiloEnReposo]
    /\ retenido = [a \in Algoritmos |-> <<>>]
    /\ alias = 0
    /\ lark = TRUE
    /\ InitGrammar
    /\ pseudocodigo = <<>>
    /\ validacion = <<>>
    /\ parseo = <<>>

NextHilos ==
    \/ \E h \in Algoritmos : H_Comprobar(h)
    \/ \E h \in Algoritmos : H_GuardarAnalisis(h)
    \/ \E h \in Algoritmos : H_LeerPeor(h)
    \/ \E h \in Algoritmos : H_LeerMejor(h)
    \/ \E h \in Algoritmos : H_LeerPeorStr(h)
    \/ \E h \in Algoritmos : H_LeerMejorStr(h)
    \/ \E h \in Algoritmos : H_LeerDesglose(h)
    \/ \E h \in Algoritmos : H_GuardarComplejidad(h)
    \/ \E h \in Algoritmos : H_Devolver(h)

SpecHilos == InitHilos /\ [][NextHilos]_vars

(***************************************************************************)
(* Complejidad objects in the hands of callers                             *)
(***************************************************************************)
\* the properties of Complejidad that have a setter
Campos == {"id", "notacion_o", "notacion_omega", "notacion_theta", "justificacion"}

\* the value a caller assigns through the setter of campo: an id of no
\* Algoritmo, a text that is no notation, a justification with another close
Ajeno(c, campo) ==
    CASE campo = "id"            -> 0
      [] campo = "justificacion" -> [c.justificacion EXCEPT !.promedio = <<"ajeno">>]
      [] OTHER                   -> <<"ajeno">>

\* the fields of kept results that differ from what analizar returned
Cambiados ==
    {par \in Algoritmos \X Campos :
        /\ retenido[par[1]] # <<>>
        /\ retenido[par[1]][1][par[2]] # primer_resultado[par[1]][1][par[2]]}

\* resultado.campo = valor, on the Complejidad the caller of analizar(a) kept;
\* Analizador._complejidad is the same object while alias = a
Modificar(a, campo) ==
    /\ retenido[a] # <<>>
    /\ Cardinality(Cambiados) < MaxCambios
    /\ \E c \in {[retenido[a][1] EXCEPT ![campo] = Ajeno(retenido[a][1], campo)]} :
           /\ retenido' = [retenido EXCEPT ![a] = <<c>>]
           /\ complejidad' = IF alias = a THEN <<c>> ELSE complejidad
    /\ UNCHANGED <<arbol, ultimo_analisis, salida, primer_resultado, alias>>
    /\ UNCHANGED <<varsParser, varsHilos, varsGrammar, varsLLM>>

NextObjetos ==
    \/ \E a \in Algoritmos : Analizar(a)
    \/ \E a \in Algoritmos, campo \in Campos : Modificar(a, campo)

SpecObjetos == InitHilos /\ [][NextObjetos]_vars

(***************************************************************************)
(* Grammar: the pseudocode grammar and its Earley recogniser               *)
(*                                                                         *)
(* A text is a sequence of lexemes, one per line.  Lark's dynamic lexer    *)
(* tries, at each position, every terminal the parser expects there, so a  *)
(* lexeme may match several terminals (a keyword is also an identifier).   *)
(* No lexeme of the alphabet has a keyword as a proper prefix.  "<-"       *)
(* stands for the arrow U+2190 and "<=", ">=", "/=" for U+2264, U+2265 and *)
(* U+2260.                                                                 *)
(***************************************************************************)
Palabras == {"if", "then", "else", "for", "to", "downto", "do", "while",
             "return", "or", "and", "not", "div", "mod"}

\* IDENTIFICADOR: /[a-zA-Z_][a-zA-Z0-9_-]*/
IDENTIFICADOR == {"x", "i", "n", "A", "f", "length"} \cup Palabras

\* %import common.NUMBER
NUMBER == {"1"}

REL_OP == {"<=", ">=", "/=", "=", "<", ">"}

\* COMMENT: "//" /[^\n]*/
COMMENT == {"// x := 1", "// nota"}

\* the EBNF operators of a rule body: a terminal (the lexemes it matches), a
\* rule name, a sequence, alternatives "|", an option "[ ]" or "( )?", and the
\* repetitions "( )*" and "( )+"
Tok(lexemas) == [op |-> "Tok", lex |-> lexemas, name |-> "", args |-> <<>>]
Regla(nombre) == [op |-> "Regla", lex |-> {}, name |-> nombre, args |-> <<>>]
Sec(partes) == [op |-> "Sec", lex |-> {}, name |-> "", args |-> partes]
Alt(partes) == [op |-> "Alt", lex |-> {}, name |-> "", args |-> partes]
Opc(parte) == [op |-> "Opc", lex |-> {}, name |-> "", args |-> <<parte>>]
Rep(parte) == [op |-> "Rep", lex |-> {}, name |-> "", args |-> <<parte>>]
Rep1(parte) == [op |-> "Rep1", lex |-> {}, name |-> "", args |-> <<parte>>]

\* ?start: (sentencia | declaracion_funcion)+
start == Rep1(Alt(<<Regla("sentencia"), Regla("declaracion_funcion")>>))

\* ?sentencia: asignacion | if_sentencia | for_sentencia | while_sentencia
\*           | call_funcion | return_sentencia
sentencia ==
    Alt(<<Regla("asignacion"), Regla("if_sentencia"), Regla("for_sentencia"),
          Regla("while_sentencia"), Regla("call_funcion"), Regla("return_sentencia")>>)

\* declaracion_funcion: IDENTIFICADOR "(" [parametro_lista] ")" sentencias
declaracion_funcion ==
    Sec(<<Tok(IDENTIFICADOR), Tok({"("}), Opc(Regla("parametro_lista")), Tok({")"}),
          Regla("sentencias")>>)

\* if_sentencia: "if" condicion "then" sentencias ("else" sentencias)?
if_sentencia ==
    Sec(<<Tok({"if"}), Regla("condicion"), Tok({"then"}), Regla("sentencias"),
          Opc(Sec(<<Tok({"else"}), Regla("sentencias")>>))>>)

\* for_sentencia: "for" IDENTIFICADOR "<-" expresion ("to" | "downto") expresion "do" sentencias
for_sentencia ==
    Sec(<<Tok({"for"}), Tok(IDENTIFICADOR), Tok({"<-"}), Regla("expresion"),
          Alt(<<Tok({"to"}), Tok({"downto"})>>), Regla("expresion"), Tok({"do"}),
          Regla("sentencias")>>)

\* while_sentencia: "while" condicion "do" sentencias
while_sentencia == Sec(<<Tok({"while"}), Regla("condicion"), Tok({"do"}), Regla("sentencias")>>)

\* sentencias: (sentencia)+
sentencias == Rep1(Regla("sentencia"))

\* an assignment rule that also takes the Pascal token
asignacion_pascal == Sec(<<Regla("variable"), Tok({"<-", ":="}), Regla("expresion")>>)

\* asignacion: variable "<-" expresion
asignacion == Sec(<<Regla("variable"), Tok({"<-"}), Regla("expresion")>>)

\* return_sentencia: "return" expresion
return_sentencia == Sec(<<Tok({"return"}), Regla("expresion")>>)

\* parametro_lista: IDENTIFICADOR ("," IDENTIFICADOR)*
parametro_lista == Sec(<<Tok(IDENTIFICADOR), Rep(Sec(<<Tok({","}), Tok(IDENTIFICADOR)>>))>>)

\* argumento_lista: expresion ("," expresion)*
argumento_lista == Sec(<<Regla("expresion"), Rep(Sec(<<Tok({","}), Regla("expresion")>>))>>)

\* ?condicion: expresion
condicion == Regla("expresion")

\* ?expresion: bool_or
expresion == Regla("bool_or")

\* ?bool_or: bool_and ("or" bool_and)*
bool_or == Sec(<<Regla("bool_and"), Rep(Sec(<<Tok({"or"}), Regla("bool_and")>>))>>)

\* ?bool_and: bool_not ("and" bool_not)*
bool_and == Sec(<<Regla("bool_not"), Rep(Sec(<<Tok({"and"}), Regla("bool_not")>>))>>)

\* ?bool_not: "not" bool_not | comparacion
bool_not == Alt(<<Sec(<<Tok({"not"}), Regla("bool_not")>>), Regla("comparacion")>>)

\* ?comparacion: aritmetica (REL_OP aritmetica)*
comparacion == Sec(<<Regla("aritmetica"), Rep(Sec(<<Tok(REL_OP), Regla("aritmetica")>>))>>)

\* ?aritmetica: term (("+"|"-") term)*
aritmetica ==
    Sec(<<Regla("term"), Rep(Sec(<<Alt(<<Tok({"+"}), Tok({"-"})>>), Regla("term")>>))>>)

\* ?term: factor (("*"|"/"|"div"|"mod") factor)*
term ==
    Sec(<<Regla("factor"),
          Rep(Sec(<<Alt(<<Tok({"*"}), Tok({"/"}), Tok({"div"}), Tok({"mod"})>>),
                    Regla("factor")>>))>>)

\* ?factor: ("+"|"-") factor | atomo
factor == Alt(<<Sec(<<Alt(<<Tok({"+"}), Tok({"-"})>>), Regla("factor")>>), Regla("atomo")>>)

\* ?atomo: NUMBER | variable | "(" expresion ")" | call_funcion
atomo ==
    Alt(<<Tok(NUMBER), Regla("variable"),
          Sec(<<Tok({"("}), Regla("expresion"), Tok({")"})>>), Regla("call_funcion")>>)

\* variable: IDENTIFICADOR ("." IDENTIFICADOR | "[" expresion "]")*
variable ==
    Sec(<<Tok(IDENTIFICADOR),
          Rep(Alt(<<Sec(<<Tok({"."}), Tok(IDENTIFICADOR)>>),
                    Sec(<<Tok({"["}), Regla("expresion"), Tok({"]"})>>)>>))>>)

\* call_funcion: IDENTIFICADOR "(" [argumento_lista] ")"
call_funcion == Sec(<<Tok(IDENTIFICADOR), Tok({"("}), Opc(Regla("argumento_lista")), Tok({")"})>>)

\* Grammar._pseudocode_grammar: the rules by name
PseudocodeGrammar ==
    [start               |-> start,
     sentencia           |-> sentencia,
     declaracion_funcion |-> declaracion_funcion,
     if_sentencia        |-> if_sentencia,
     for_sentencia       |-> for_sentencia,
     while_sentencia     |-> while_sentencia,
     sentencias          |-> sentencias,
     asignacion          |-> asignacion,
     return_sentencia    |-> return_sentencia,
     parametro_lista     |-> parametro_lista,
     argumento_lista     |-> argumento_lista,
     condicion           |-> condicion,
     expresion           |-> expresion,
     bool_or             |-> bool_or,
     bool_and            |-> bool_and,
     bool_not            |-> bool_not,
     comparacion         |-> comparacion,
     aritmetica          |-> aritmetica,
     term                |-> term,
     factor              |-> factor,
     atomo               |-> atomo,
     variable            |-> variable,
     call_funcion        |-> call_funcion]

\* %ignore COMMENT (and WS, which separates the lexemes)
SinComentarios(codigo) == SelectSeq(codigo, LAMBDA l : l \notin COMMENT)

\* one terminal out of lexemas, matched at each position of S
Terminal(w, S, lexemas) == {j + 1 : j \in {k \in S : k <= Len(w) /\ w[k] \in lexemas}}

RECURSIVE Cuerpo(_)
\* the body a rule name stands for
Cuerpo(e) == IF e.op = "Regla" THEN Cuerpo(PseudocodeGrammar[e.name]) ELSE e

\* the EBNF operator to match with; nothing is matched from no position
Forma(e, S) == IF S = {} THEN "Vacio" ELSE e.op

RECURSIVE Reconocer(_, _, _)
RECURSIVE ReconocerSec(_, _, _)
\* the parser Lark builds from the grammar: the positions of w where a match
\* of e that starts at a position of S can end
Reconocer(e, w, S) ==
    CASE Forma(e, S) = "Vacio" -> {}
      [] Forma(e, S) = "Tok"   -> Terminal(w, S, e.lex)
      [] Forma(e, S) = "Sec"   -> ReconocerSec(Tail(e.args), w, Reconocer(Cuerpo(Head(e.args)), w, S))
      [] Forma(e, S) = "Alt"   -> UNION {Reconocer(Cuerpo(e.args[k]), w, S) : k \in DOMAIN e.args}
      [] Forma(e, S) = "Opc"   -> S \cup Reconocer(Cuerpo(e.args[1]), w, S)
      [] Forma(e, S) = "Rep"   -> S \cup Reconocer(e, w, Reconocer(Cuerpo(e.args[1]), w, S))
      [] Forma(e, S) = "Rep1"  -> Reconocer(Rep(e.args[1]), w, Reconocer(Cuerpo(e.args[1]), w, S))

\* the parts of a sequence, one after the other
ReconocerSec(partes, w, S) ==
    CASE S = {}        -> {}
      [] partes = <<>> -> S
      [] OTHER         -> ReconocerSec(Tail(partes), w, Reconocer(Cuerpo(Head(partes)), w, S))

\* Lark(..., start='start', parser='earley').parse(codigo) returns a tree
\* (FALSE: it raises a LarkError)
Parse(codigo) ==
    \E w \in {SinComentarios(codigo)} :
        Len(w) + 1 \in Reconocer(Cuerpo(Regla("start")), w, {1})

\* Grammar.validar_sentencia(codigo)
ValidarSentencia(codigo) == IF ~lark THEN FALSE ELSE Parse(codigo)

(***************************************************************************)
(* LLMService and Ast: a Python text is a sequence of lines                *)
(***************************************************************************)
\* code lines the translation service may answer with: a statement, a comment
\* that holds the error marker, and a line that is not Python
LineasRespuesta == {"x = 1", "# Error", "x = = 1"}

\* the Markdown fences a reply may come wrapped in; "<fence>" stands for the
\* three backquotes
VallasAbrir == {<<>>, <<"<fence>python">>, <<"<fence>">>}
VallasCerrar == {<<>>, <<"<fence>">>}

\* str(e) of what generate_content may raise
MensajesError == {"timeout", "# Error 503"}

RECURSIVE Secuencias(_, _)
\* the sequences over S of length at most k
Secuencias(S, k) ==
    IF k = 0 THEN {<<>>}
    ELSE LET cortas == Secuencias(S, k - 1)
         IN  cortas \cup {Append(s, x) : s \in {c \in cortas : Len(c) = k - 1}, x \in S}

\* what generate_content does: it raises e, or it returns a response with a text
Respuestas ==
    {[exc |-> TRUE, text |-> <<m>>] : m \in MensajesError}
    \cup {[exc |-> FALSE, text |-> a \o t \o c] :
              a \in VallasAbrir, t \in Secuencias(LineasRespuesta, MaxLineas), c \in VallasCerrar}

RECURSIVE StripIzq(_)
StripIzq(lineas) ==
    IF lineas # <<>> /\ Head(lineas) = "" THEN StripIzq(Tail(lineas)) ELSE lineas

RECURSIVE StripDer(_)
StripDer(lineas) ==
    IF lineas # <<>> /\ lineas[Len(lineas)] = ""
    THEN StripDer(SubSeq(lineas, 1, Len(lineas) - 1)) ELSE lineas

\* str.strip(): blank lines at either end go
Strip(lineas) == StripDer(StripIzq(lineas))

\* f"Error al contactar la API de Gemini: {e}"
ErrorAlContactar(m) ==
    IF m = "timeout" THEN "Error al contactar la API de Gemini: timeout"
    ELSE "Error al contactar la API de Gemini: # Error 503"

\* LLMService._ejecutar_prompt_con_contexto
EjecutarPromptConContexto(r) ==
    IF r.exc THEN <<ErrorAlContactar(r.text[1])>> ELSE Strip(r.text)

\* .replace(<fence>python, "").replace(<fence>, ""): a fence line is left blank
SinVallas(lineas) ==
    [k \in 1..Len(lineas) |-> IF lineas[k] \in {"<fence>python", "<fence>"} THEN "" ELSE lineas[k]]

\* LLMService.traducir_pseudocodigo_a_python
TraducirPseudocodigoAPython(r) == Strip(SinVallas(EjecutarPromptConContexto(r)))

\* "# Error" in codigo_python
TieneMarca(codigo) ==
    \E k \in 1..Len(codigo) :
        codigo[k] \in {"# Error", "Error al contactar la API de Gemini: # Error 503"}

\* lines ast.parse accepts: a statement, a comment, a blank line
LineasValidas == {"x = 1", "# Error", ""}

RECURSIVE CuerpoDesde(_, _)
\* the statements of lines k.. of the text, each with its lineno
CuerpoDesde(codigo, k) ==
    IF k > Len(codigo) THEN <<>>
    ELSE (IF codigo[k] = "x = 1" THEN <<[Asignacion EXCEPT !.ln = k]>> ELSE <<>>)
         \o CuerpoDesde(codigo, k + 1)

\* Servicios.Ast.AST(codigo) on a text: <<>> when ast.parse raises SyntaxError
ASTDeTexto(codigo) ==
    IF \E k \in 1..Len(codigo) : codigo[k] \notin LineasValidas THEN <<>>
    ELSE <<[_codigo |-> codigo, _arbol |-> CuerpoDesde(codigo, 1)]>>

(***************************************************************************)
(* Parser                                                                  *)
(***************************************************************************)
\* a validar_sentencia that prints nothing
SalidaValidar_callada(valida) == <<>>

\* what validar_sentencia prints on its way to returning valida
SalidaValidar(valida) ==
    IF ~lark THEN <<"Lark no esta instalado. No se puede validar la sintaxis.">>
    ELSE IF valida THEN <<>> ELSE <<"Error de sintaxis">>

\* one call to the translation service, as the caller of parsear may tell it
\* apart: generate_content raised, or its reply was empty, or its reply held
\* the error marker
Llamada(r) ==
    [exc   |-> r.exc,
     vacia |-> ~r.exc /\ Strip(r.text) = <<>>,
     marca |-> ~r.exc /\ \E k \in 1..Len(r.text) : r.text[k] = "# Error"]

\* parsear from the translation on, for one behaviour r of the service: what it
\* raises or returns, the text it got back, the calls it made to the service
\* and what it printed
TraducirYParsear(r) ==
    LET codigo_python == TraducirPseudocodigoAPython(r)
        hecho == [codigo |-> <<codigo_python>>, llamada |-> <<Llamada(r)>>, impreso |-> <<>>]
    IN  IF codigo_python = <<>> \/ TieneMarca(codigo_python)
        THEN [exc |-> "ConnectionError", ret |-> <<>>] @@ hecho
        ELSE IF ASTDeTexto(codigo_python) = <<>>
             THEN [exc |-> "SyntaxError", ret |-> <<>>] @@ hecho
             ELSE [exc |-> "", ret |-> ASTDeTexto(codigo_python)] @@ hecho

\* a parsear that goes straight to the translation
ResultadoParsear_sinvalidar(texto) == {TraducirYParsear(r) : r \in Respuestas}

\* Parser.parsear(texto): its outcomes over the behaviours of the service
ResultadoParsear(texto) ==
    UNION {IF ~valida
           THEN {[exc |-> "SyntaxError", ret |-> <<>>, codigo |-> <<>>,
                  llamada |-> <<>>, impreso |-> SalidaValidar(valida)]}
           ELSE {TraducirYParsear(r) : r \in Respuestas} : valida \in {ValidarSentencia(texto)}}

\* the lexemes the short texts are written with
Lexemas == {"x", "1", "<-", ":=", "=", "return", "// x := 1"}

\* longer texts in the style of the book, and the same written with ":="
Muestras ==
    {<<"for", "i", "<-", "1", "to", "n", "do", "x", "<-", "x", "+", "i">>,
     <<"for", "i", ":=", "1", "to", "n", "do", "x", ":=", "x", "+", "i">>,
     <<"while", "x", "<", "n", "do", "x", "<-", "x", "+", "1">>,
     <<"while", "x", "<", "n", "do", "x", ":=", "x", "+", "1">>,
     <<"if", "x", "=", "1", "then", "return", "x", "else", "return", "1">>,
     <<"if", "not", "x", "<=", "1", "and", "x", "/=", "n", "then", "x", "<-", "-", "1">>,
     <<"f", "(", "A", ",", "n", ")", "return", "x">>,
     <<"x", "<-", "A", "[", "1", "]">>,
     <<"f", "(", ")", "x", ":=", "A", ".", "length">>,
     <<"x", "<-", "A", ".", "length", "// nota", "f", "(", "x", ",", "1", ")">>,
     <<"x", "<-", "(", "x", "*", "n", ")", "div", "1", "or", "x">>}

Textos == Secuencias(Lexemas, MaxTokens) \cup Muestras

\* a pseudocode text reaches the Parser
Recibir ==
    /\ pseudocodigo = <<>>
    /\ \E t \in Textos : pseudocodigo' = <<t>>
    /\ UNCHANGED <<lark, validacion, parseo>>
    /\ UNCHANGED <<varsAnalizador, varsHilos, varsObjetos, varsGrammar, varsLLM>>

\* parser.validar_sintaxis(pseudocodigo)
ValidarSintaxis ==
    /\ pseudocodigo # <<>>
    /\ validacion' = <<ValidarSentencia(pseudocodigo[1])>>
    /\ UNCHANGED <<lark, pseudocodigo, parseo>>
    /\ UNCHANGED <<varsAnalizador, varsHilos, varsObjetos, varsGrammar, varsLLM>>

\* parser.parsear(pseudocodigo)
Parsear ==
    /\ pseudocodigo # <<>>
    /\ \E r \in ResultadoParsear(pseudocodigo[1]) : parseo' = <<r>>
    /\ UNCHANGED <<lark, pseudocodigo, validacion>>
    /\ UNCHANGED <<varsAnalizador, varsHilos, varsObjetos, varsGrammar, varsLLM>>

\* a Grammar built with or without lark, and a Parser over it
InitParser ==
    /\ InitAnalizador
    /\ SinServicio
    /\ lark \in BOOLEAN
    /\ InitGrammar
    /\ pseudocodigo = <<>>
    /\ validacion = <<>>
    /\ parseo = <<>>

NextParser ==
    \/ Recibir
    \/ ValidarSintaxis
    \/ Parsear

SpecParser == InitParser /\ [][NextParser]_vars

(***************************************************************************)
(* Grammar: the rule table and its callers                                 *)
(***************************************************************************)
\* names callers ask for and write under: two rules, and a name that is no rule
NombresUsados == {"asignacion", "start", "no_es_regla"}

\* the text a caller stores in the mapping
TextoAjeno == "variable \":=\" expresion"

\* dict.get(nombre): <<>> is None
Get(dict, nombre) == IF nombre \in DOMAIN dict THEN <<dict[nombre]>> ELSE <<>>

\* grammar.obtener_regla(nombre)
ObtenerRegla(nombre) ==
    /\ consulta' = <<[nombre |-> nombre, valor |-> Get(reglas, nombre)]>>
    /\ UNCHANGED <<reglas, entregado>>
    /\ UNCHANGED <<varsAnalizador, varsParser, varsHilos, varsObjetos, varsLLM>>

\* grammar.listar_reglas(): the caller receives self._reglas itself
ListarReglas ==
    /\ entregado' = TRUE
    /\ UNCHANGED <<reglas, consulta>>
    /\ UNCHANGED <<varsAnalizador, varsParser, varsHilos, varsObjetos, varsLLM>>

\* grammar.validar_sentencia(codigo), called directly
GrammarValidar ==
    /\ \E codigo \in Muestras : validacion' = <<ValidarSentencia(codigo)>>
    /\ UNCHANGED <<lark, pseudocodigo, parseo>>
    /\ UNCHANGED <<varsAnalizador, varsHilos, varsObjetos, varsGrammar, varsLLM>>

\* mapa[nombre] = texto, by a caller on the mapping listar_reglas returned
EscribirEnMapa(nombre, texto) ==
    /\ entregado
    /\ reglas' = (nombre :> texto) @@ reglas
    /\ UNCHANGED <<entregado, consulta>>
    /\ UNCHANGED <<varsAnalizador, varsParser, varsHilos, varsObjetos, varsLLM>>

\* del mapa[nombre], by a caller on the mapping listar_reglas returned
BorrarDeMapa(nombre) ==
    /\ entregado
    /\ nombre \in DOMAIN reglas
    /\ reglas' = [x \in DOMAIN reglas \ {nombre} |-> reglas[x]]
    /\ UNCHANGED <<entregado, consulta>>
    /\ UNCHANGED <<varsAnalizador, varsParser, varsHilos, varsObjetos, varsLLM>>

NextGrammar ==
    \/ \E nombre \in NombresUsados : ObtenerRegla(nombre)
    \/ ListarReglas
    \/ GrammarValidar
    \/ \E nombre \in NombresUsados : EscribirEnMapa(nombre, TextoAjeno)
    \/ \E nombre \in NombresUsados : BorrarDeMapa(nombre)

SpecGrammar == InitParser /\ [][NextGrammar]_vars

(***************************************************************************)
(* LLMService constructed again and again over one cache file              *)
(***************************************************************************)
\* the cache file, the file store and the environment as a construction may
\* find them; the stored files, if any, were uploaded at hour 0
InitLLM ==
    /\ InitAnalizador
    /\ lark = TRUE
    /\ InitGrammar
    /\ pseudocodigo = <<>>
    /\ validacion = <<>>
    /\ parseo = <<>>
    /\ reloj = 0
    /\ subidos \in 0..1
    /\ remotos \in SUBSET (1..subidos)
    /\ cache \in Entradas(subidos)
    /\ entorno \in [api_key : BOOLEAN, genai : BOOLEAN, libro : BOOLEAN]
    /\ servicio = <<>>

NextLLM ==
    \/ \E api_get \in Remoto, api_subir \in Remoto : Construir(api_get, api_subir)
    \/ \E h \in Pasos : Pasar(h)
    \/ \E f \in 1..MaxSubidas : Expirar(f)

SpecLLM == InitLLM /\ [][NextLLM]_vars

(***************************************************************************)
(* Properties of analizar                                                  *)
(***************************************************************************)
RECURSIVE Profundidad(_)
RECURSIVE ProfundidadEn(_)
\* deepest nesting of For/While statements
Profundidad(node) ==
    LET dentro == IF ProfundidadEn(node.body) >= ProfundidadEn(node.orelse)
                  THEN ProfundidadEn(node.body) ELSE ProfundidadEn(node.orelse)
    IN  IF node.t \in {"For", "While"} THEN 1 + dentro ELSE dentro

ProfundidadEn(seq) ==
    IF seq = <<>> THEN 0
    ELSE LET h == Profundidad(Head(seq))
             r == ProfundidadEn(Tail(seq))
         IN  IF h >= r THEN h ELSE r

\* the last analizar call returned a Complejidad
Exito == salida # <<>> /\ salida[1].exc = ""

\* Module body of the program the last call analysed
ArbolUltimo == arbol[salida[1].id][1]._arbol

\* the statements of the program proper: the body of the function when the
\* module is a single def, else the module body
Principal(seq) == IF Len(seq) = 1 /\ seq[1].t = "FunctionDef" THEN seq[1].body ELSE seq

Devuelto == salida[1].ret[1]

Notaciones(po, pm, th) ==
    /\ Devuelto.notacion_o = <<"O", po>>
    /\ Devuelto.notacion_omega = <<"Omega", pm>>
    /\ Devuelto.notacion_theta = th

Theta(o) == <<"Theta", o>>

RECURSIVE SinBreak(_)
\* the same statements with every break replaced by pass
SinBreak(seq) ==
    [x \in 1..Len(seq) |->
        [seq[x] EXCEPT !.t = IF @ = "Break" THEN "Pass" ELSE @,
                       !.body = SinBreak(@),
                       !.orelse = SinBreak(@)]]

\* C1: every program without a for loop, a while loop or a recursive call,
\* a lone return or call included, is reported O(1), Omega(1), Theta(1)
C1_SinBuclesConstante ==
    (Exito /\ ~HayNodoEn(ArbolUltimo, {"For", "While"}))
        => Notaciones(Uno, Uno, Theta(Uno))

\* C2: a program of loop-nesting depth k >= 1 without early exit is reported
\* with worst-case degree k, best-case degree k and Theta equal to O
C2_GradoIgualProfundidad ==
    (Exito /\ ProfundidadEn(ArbolUltimo) >= 1 /\ ~HaySalidaTemprana(ArbolUltimo))
        => LET nk == Potencia(ProfundidadEn(ArbolUltimo))
           IN  Notaciones(nk, nk, Theta(nk))

\* a single while loop, no other loop inside, holding a break
WhileConBreak(seq) ==
    /\ Len(seq) = 1
    /\ seq[1].t = "While"
    /\ ~HayNodoEn(seq[1].body, {"For", "While"})
    /\ HayNodo(seq[1], {"Break"})

\* C3: a single while loop with a break at any depth inside conditionals is
\* reported Omega(1), and its O bound is that of the program without the break
C3_WhileBreakOmegaUno ==
    (Exito /\ WhileConBreak(Principal(ArbolUltimo)))
        => /\ Devuelto.notacion_omega = <<"Omega", Uno>>
           /\ Devuelto.notacion_o =
                  Derivar(salida[1].id,
                          AnalizarEficiencia([_arbol |-> SinBreak(ArbolUltimo)])).notacion_o

C3_Testigo ==
    /\ Exito
    /\ WhileConBreak(Principal(ArbolUltimo))
    /\ \E x \in 1..Len(Principal(ArbolUltimo)[1].body) :
           LET s == Principal(ArbolUltimo)[1].body[x]
           IN  s.t = "If" /\ HayNodo(s, {"Break"})
    /\ Devuelto.notacion_o = <<"O", Potencia(1)>>

\* an outer for whose body is assignments and one inner while of assignments
FormaInsercion(seq) ==
    /\ Len(seq) = 1
    /\ seq[1].t = "For"
    /\ \E x \in 1..Len(seq[1].body) : seq[1].body[x].t = "Assign"
    /\ \E x \in 1..Len(seq[1].body) :
           /\ seq[1].body[x].t = "While"
           /\ \A y \in 1..Len(seq[1].body[x].body) : seq[1].body[x].body[y].t = "Assign"
           /\ \A y \in 1..Len(seq[1].body) : y # x => seq[1].body[y].t = "Assign"

\* C4: an insertion-sort-shaped program is reported O(n^2), Omega(n^2), Theta(n^2)
C4_InsercionCuadratica ==
    (Exito /\ FormaInsercion(Principal(ArbolUltimo)))
        => Notaciones(Potencia(2), Potencia(2), Theta(Potencia(2)))

\* a single for whose body is one conditional that executes break
FormaBusquedaLineal(seq) ==
    /\ Len(seq) = 1
    /\ seq[1].t = "For"
    /\ Len(seq[1].body) = 1
    /\ seq[1].body[1].t = "If"
    /\ \E x \in 1..Len(seq[1].body[1].body) : seq[1].body[1].body[x].t = "Break"
    /\ ~HayNodo(seq[1].body[1], {"For", "While"})

SoloAsignaciones(seq) == Len(seq) >= 1 /\ \A x \in 1..Len(seq) : seq[x].t = "Assign"

\* C6: k assignments in a row are reported O(1), Omega(1), Theta(1) and the
\* line-cost trace holds exactly k entries, one per assignment, in source order
C6_LineaRectaTraza ==
    (Exito /\ SoloAsignaciones(Principal(ArbolUltimo)))
        => LET cuerpo == Principal(ArbolUltimo)
               traza  == ultimo_analisis[1].desglose_costos
           IN  /\ Notaciones(Uno, Uno, Theta(Uno))
               /\ Len(traza) = Len(cuerpo)
               /\ \A x \in 1..Len(cuerpo) :
                      /\ traza[x].ln = cuerpo[x].ln
                      /\ traza[x].desc = <<"Asignacion">>
               /\ \A x \in 1..(Len(traza) - 1) : traza[x].ln < traza[x + 1].ln

C6_Testigo ==
    /\ Exito
    /\ SoloAsignaciones(Principal(ArbolUltimo))
    /\ Len(ultimo_analisis[1].desglose_costos) = 3

\* C7: a repeated analizar of the same Algoritmo returns what its first call
\* returned (notations, justification, constant names), whatever ran between
C7_Idempotente ==
    (Exito /\ salida[1].repetida) => salida[1].ret = primer_resultado[salida[1].id]

C7_Testigo ==
    /\ Exito
    /\ salida[1].repetida
    /\ salida[1].antes # <<>>
    /\ salida[1].antes[1].id # salida[1].id
    /\ Len(Devuelto.justificacion.lineas) >= 2

\* C10: analizar on an Algoritmo without a syntax tree raises the invalid-state
\* error and leaves _complejidad and _ultimo_analisis as they were
C10_SinArbolNoCambia ==
    [][\A a \in Algoritmos :
          (arbol[a] = <<>> /\ Analizar(a))
              => /\ salida'[1].exc = "ValueError"
                 /\ salida'[1].ret = <<>>
                 /\ complejidad' = complejidad
                 /\ ultimo_analisis' = ultimo_analisis]_vars

C10_Testigo ==
    /\ salida # <<>>
    /\ salida[1].exc = "ValueError"
    /\ arbol[salida[1].id] = <<>>
    /\ complejidad # <<>>
    /\ ultimo_analisis # <<>>
    /\ salida[1].antes = complejidad

(***************************************************************************)
(* Properties of the Parser                                                *)
(***************************************************************************)
\* validar_sintaxis and parsear have both run on the text
AmbosHechos == pseudocodigo # <<>> /\ validacion # <<>> /\ parseo # <<>>

\* the text has the token ":=" outside any comment
UsaDosPuntosIgual ==
    pseudocodigo # <<>> /\ \E k \in 1..Len(pseudocodigo[1]) : pseudocodigo[1][k] = ":="

C9_DosPuntosIgualRechazado ==
    UsaDosPuntosIgual =>
        /\ (validacion # <<>> => validacion[1] = FALSE)
        /\ (parseo # <<>> => parseo[1].exc = "SyntaxError" /\ parseo[1].ret = <<>>)

\* both calls have rejected x := 1, a text the grammar accepts when written
\* with the arrow, with lark installed
C9_Testigo ==
    /\ lark
    /\ AmbosHechos
    /\ pseudocodigo[1] = <<"x", ":=", "1">>
    /\ Parse(<<"x", "<-", "1">>)
    /\ validacion[1] = FALSE
    /\ parseo[1].exc = "SyntaxError"


\* the last parsear call reached the translation service and the translation
\* failed: the service call raised, or the reply was empty or an error reply
FalloDeTraduccion ==
    /\ parseo # <<>>
    /\ parseo[1].llamada # <<>>
    /\ LET l == parseo[1].llamada[1] IN l.exc \/ l.vacia \/ l.marca

\* C11: a failure of the translation service during parsear (the call raising
\* internally, an empty reply or an error reply) reaches the caller as
\* ConnectionError and never as SyntaxError.
C11_FalloEsConnectionError == FalloDeTraduccion => parseo[1].exc = "ConnectionError"

C12_ResultadoPropio ==
    \A h \in Algoritmos :
        hilos[h].pc = "fin" /\ hilos[h].exc = "" =>
            hilos[h].ret = <<Derivar(h, AnalizarEficiencia(arbol[h][1]))>>


(***************************************************************************)
(* Properties of the notations                                             *)
(***************************************************************************)
\* the dominant terms of the worst-case and best-case functions of the analysis
\* the last successful call stored
DominantePeor == Orden(ultimo_analisis[1].funcion_peor_caso)
DominanteMejor == Orden(ultimo_analisis[1].funcion_mejor_caso)

\* C14: the Theta field of a returned result is Theta(D_worst) exactly when the
\* dominant terms of the worst and of the best case are the same term; when
\* they differ the field is the marker "No aplicable", which is no Theta bound
\* and in particular not the worst-case one.
C14_ThetaSiiCoinciden ==
    salida # <<>> /\ salida[1].exc = "" =>
        /\ DominantePeor = DominanteMejor <=> Devuelto.notacion_theta = <<"Theta", DominantePeor>>
        /\ DominantePeor # DominanteMejor <=> Devuelto.notacion_theta = NoAplicable
        /\ Devuelto.notacion_theta[1] = "Theta" => Devuelto.notacion_theta[2] = DominanteMejor

\* a result for a tree whose bounds differ: O(n) and Omega(1), no Theta
C14_Testigo ==
    /\ salida # <<>> /\ salida[1].exc = ""
    /\ DominantePeor = Potencia(1) /\ DominanteMejor = Uno
    /\ Devuelto.notacion_theta = NoAplicable


(***************************************************************************)
(* Properties of the Complejidad objects                                   *)
(***************************************************************************)
\* C15 as stated: a result is read-only once analizar has produced it: whatever
\* is done afterwards, the object a caller kept still has the id, notations and
\* justification analizar returned.
C15_SoloLectura ==
    \A a \in Algoritmos : retenido[a] # <<>> => retenido[a] = primer_resultado[a]

\* C15 as amended: a result is produced with the id of its Algoritmo, and a
\* kept result changes only in a step that is a call of one of its own
\* setters; no analizar call changes it.
C15_SoloPorSetter ==
    [][\A a \in Algoritmos :
           /\ retenido[a] = <<>> /\ retenido'[a] # <<>> => retenido'[a][1].id = a
           /\ retenido[a] # <<>> /\ retenido'[a] # retenido[a] =>
                  \E campo \in Campos : Modificar(a, campo)]_vars

\* a kept result, untouched after a later successful analizar call for another
\* Algoritmo that left the Analizador with a different Complejidad
C15_Testigo ==
    /\ salida # <<>> /\ salida[1].exc = ""
    /\ \E a \in Algoritmos :
           /\ a # salida[1].id
           /\ retenido[a] # <<>> /\ retenido[a] = primer_resultado[a]
           /\ complejidad # retenido[a]


(***************************************************************************)
(* Properties of the rule table                                            *)
(***************************************************************************)
\* C16: whatever calls of obtener_regla, listar_reglas and validar_sentencia
\* came before, and whatever callers did with the mapping listar_reglas gave
\* them, obtener_regla(nombre) returns the text the rule had right after
\* construction, and None for a name that is no rule.
C16_TablaFija ==
    consulta # <<>> => consulta[1].valor = Get(ParseGrammarToDict, consulta[1].nombre)


(***************************************************************************)
(* Properties of the visitor                                               *)
(***************************************************************************)
\* the statements of the program last analysed: the module body, or the body
\* of the function it consists of
Sentencias ==
    LET modulo == arbol[salida[1].id][1]._arbol
    IN  IF Len(modulo) = 1 /\ modulo[1].t = "FunctionDef" THEN modulo[1].body ELSE modulo

\* assignment, return and call statement
Elementales == {"Assign", "Return", "Expr"}

\* c_1 + ... + c_k
SumaConstantes(k) == SetToBag({Atomo("c", x, "", "", {}) : x \in 1..k})

\* C17: every elementary statement visited (assignment, return, call statement)
\* takes one fresh constant, adds it to the worst-case and to the best-case
\* cost and records one line-cost entry: a program of k elementary statements
\* in a row has cost c_1 + ... + c_k in both cases and k entries, the x-th for
\* the line of the x-th statement.
C17_UnaConstantePorElemental ==
    salida # <<>> /\ salida[1].exc = "" /\ (\A x \in DOMAIN Sentencias : Sentencias[x].t \in Elementales) =>
        /\ ultimo_analisis[1].funcion_peor_caso = SumaConstantes(Len(Sentencias))
        /\ ultimo_analisis[1].funcion_mejor_caso = SumaConstantes(Len(Sentencias))
        /\ Len(ultimo_analisis[1].desglose_costos) = Len(Sentencias)
        /\ \A x \in DOMAIN Sentencias :
               ultimo_analisis[1].desglose_costos[x].ln = Sentencias[x].ln


RECURSIVE Indices(_)
\* the i of every constant c_i that occurs in an expression
Indices(e) ==
    UNION {IF m.k = "c" THEN {m.i} ELSE UNION {Indices(a) : a \in m.args} : m \in DOMAIN e}

\* C18: within one analysis no two charged statements (assignments, conditional
\* tests, loop overheads; at any nesting depth) are given the same constant:
\* the costs of two different entries of the line-cost trace share no c_i.
C18_ConstantesFrescas ==
    salida # <<>> /\ salida[1].exc = "" =>
        \A x, y \in DOMAIN ultimo_analisis[1].desglose_costos :
            x # y => Indices(ultimo_analisis[1].desglose_costos[x].cost.peor)
                         \cap Indices(ultimo_analisis[1].desglose_costos[y].cost.peor) = {}


\* the largest number of a non-empty set of naturals, and the smallest
MaxDe(S) == CHOOSE d \in S : \A x \in S : x <= d
MinDe(S) == CHOOSE d \in S : \A x \in S : d <= x

RECURSIVE Grado(_)
\* the degree in n of an evaluated cost whose constants are positive: a Max
\* grows like its larger argument, a Min like its smaller one
Grado(e) ==
    IF e = Cero THEN 0
    ELSE MaxDe({m.n + (CASE m.k = "Max" -> MaxDe({Grado(a) : a \in m.args})
                         [] m.k = "Min" -> MinDe({Grado(a) : a \in m.args})
                         [] OTHER       -> 0) : m \in DOMAIN e})

Bucles == {"For", "While"}

\* the program last analysed is one conditional
EsUnCondicional == Len(Sentencias) = 1 /\ Sentencias[1].t = "If"

\* the visitors of the two branches of that conditional, each analysed on its own
RamaIf == VisitSeq(NuevoVisitor, Sentencias[1].body)
RamaElse == VisitSeq(NuevoVisitor, Sentencias[1].orelse)

\* C19: a conditional contributes test cost + Max(then worst, else worst) to
\* the worst case and test cost + Min(then best, else best) to the best case,
\* the branches analysed independently and an absent else costing zero; so
\* when only one branch holds a loop, the worst-case cost has degree at least
\* one in n and the best-case cost has degree zero.
C19_CondicionalMaxMin ==
    salida # <<>> /\ salida[1].exc = "" /\ EsUnCondicional =>
        /\ ultimo_analisis[1].funcion_peor_caso =
               Doit(Mas(Simbolo(1), Maximo(RamaIf.worst_case_cost, RamaElse.worst_case_cost)))
        /\ ultimo_analisis[1].funcion_mejor_caso =
               Doit(Mas(Simbolo(1), Minimo(RamaIf.best_case_cost, RamaElse.best_case_cost)))
        /\ HayNodoEn(Sentencias[1].body, Bucles) # HayNodoEn(Sentencias[1].orelse, Bucles) =>
               /\ Grado(ultimo_analisis[1].funcion_peor_caso) >= 1
               /\ Grado(ultimo_analisis[1].funcion_mejor_caso) = 0


\* the program last analysed is one for loop
EsUnFor == Len(Sentencias) = 1 /\ Sentencias[1].t = "For"

\* its two bounds are literal constants
CotasLiterales ==
    /\ Len(Sentencias[1].iter) = 2
    /\ Sentencias[1].iter[1] \in Literales /\ Sentencias[1].iter[2] \in Literales

\* the visitor of the loop body, analysed on its own
CuerpoFor == VisitSeq(NuevoVisitor, Sentencias[1].body)

\* the cost of a loop charged n iterations of its body, given the body cost
ConN(cuerpo) == Mas(Simbolo(1), PorN(Doit(cuerpo)))

\* C20 as stated: a for loop whose two bounds are literals is charged its
\* concrete trip count (overhead plus trip count times the body cost, no degree
\* in n added); a for loop with a non-literal bound is charged n iterations.
C20_LiteralCuentaConcreta ==
    salida # <<>> /\ salida[1].exc = "" /\ EsUnFor =>
        IF CotasLiterales
        THEN LET viajes == Valor(Sentencias[1].iter[2]) - Valor(Sentencias[1].iter[1])
             IN  /\ ultimo_analisis[1].funcion_peor_caso =
                        Mas(Simbolo(1), Veces(viajes, Doit(CuerpoFor.worst_case_cost)))
                 /\ ultimo_analisis[1].funcion_mejor_caso =
                        Mas(Simbolo(1), Veces(viajes, Doit(CuerpoFor.best_case_cost)))
        ELSE /\ ultimo_analisis[1].funcion_peor_caso = ConN(CuerpoFor.worst_case_cost)
             /\ ultimo_analisis[1].funcion_mejor_caso = ConN(CuerpoFor.best_case_cost)

\* C20 as amended: every for loop is charged the overhead constant plus n
\* iterations of its body, whether its bounds are literals or not.
C20_ForSiempreN ==
    salida # <<>> /\ salida[1].exc = "" /\ EsUnFor =>
        /\ ultimo_analisis[1].funcion_peor_caso = ConN(CuerpoFor.worst_case_cost)
        /\ ultimo_analisis[1].funcion_mejor_caso = ConN(CuerpoFor.best_case_cost)

\* a loop over range(1, 3) around one assignment, reported O(n)
C20_Testigo ==
    /\ salida # <<>> /\ salida[1].exc = "" /\ EsUnFor /\ CotasLiterales
    /\ Sentencias[1].body = <<[Asignacion EXCEPT !.ln = 2]>>
    /\ Devuelto.notacion_o = <<"O", Potencia(1)>>

EsUnWhile == Len(Sentencias) = 1 /\ Sentencias[1].t = "While"

\* the visitor of the loop body, analysed on its own
CuerpoWhile == VisitSeq(NuevoVisitor, Sentencias[1].body)

\* the cost of a while loop whose test runs lim + 1 times and whose body runs
\* lim times, given the body cost
CosteWhile(cuerpo, lim) ==
    Doit(Mas(Sumatoria(Simbolo(1), "i", MasUno(lim)), Sumatoria(cuerpo, "j", lim)))

\* C22: for a while loop whose body holds no early exit the best-case trip
\* count is n, as the worst-case one: the best case is the test n + 1 times
\* plus the best-case body cost n times, so it has degree at least one in n.
C22_WhileSinSalidaIgual ==
    salida # <<>> /\ salida[1].exc = "" /\ EsUnWhile
        /\ ~HayNodo(Sentencias[1], {"Break", "Return"}) =>
        /\ ultimo_analisis[1].funcion_peor_caso = CosteWhile(CuerpoWhile.worst_case_cost, "n")
        /\ ultimo_analisis[1].funcion_mejor_caso = CosteWhile(CuerpoWhile.best_case_cost, "n")
        /\ Grado(ultimo_analisis[1].funcion_mejor_caso) >= 1

RetornoDirecto(node) == \E x \in 1..Len(node.body) : node.body[x].t = "Return"

\* C23: a while loop whose body holds a return reached unconditionally within
\* one iteration (a return among the statements of the body itself) has its
\* best-case trip count collapsed to 1, as a while loop holding a break has:
\* the test is charged twice and the body once in the best case.
C23_RetornoColapsa ==
    salida # <<>> /\ salida[1].exc = "" /\ EsUnWhile /\ RetornoDirecto(Sentencias[1]) =>
        ultimo_analisis[1].funcion_mejor_caso = CosteWhile(CuerpoWhile.best_case_cost, "1")

RECURSIVE HayFueraDeDef(_, _)
\* a statement of one of the kinds T among seq and its descendants, the bodies
\* of function declarations left out
HayFueraDeDef(seq, T) ==
    \E x \in 1..Len(seq) :
        /\ seq[x].t # "FunctionDef"
        /\ seq[x].t \in T \/ HayFueraDeDef(seq[x].body, T) \/ HayFueraDeDef(seq[x].orelse, T)

\* C24: early-exit detection of a while loop never looks inside a function
\* declared in the loop: when no break or return occurs in the body outside
\* such a declaration, the best-case trip count is not collapsed to 1, so the
\* best-case cost is not the collapsed one (test twice, body once).
C24_DefAnidadaNoColapsa ==
    salida # <<>> /\ salida[1].exc = "" /\ EsUnWhile
        /\ ~HayFueraDeDef(Sentencias[1].body, {"Break", "Return"}) =>
        ultimo_analisis[1].funcion_mejor_caso # CosteWhile(CuerpoWhile.best_case_cost, "1")

\* the description a statement of class t is traced with
DescripcionDe(t) ==
    CASE t = "Assign" -> <<"Asignacion">>
      [] t = "If"     -> <<"Evaluacion de condicion if">>
      [] t = "For"    -> <<"Inicializacion y test del bucle for">>
      [] t = "While"  -> <<"Test de condicion while">>
      [] OTHER        -> <<>>

\* the tag of the entries that come from the body or the else branch of a
\* statement of class t
MarcaDe(t, rama) ==
    CASE t = "If" /\ rama = "body"   -> <<"(Rama if)">>
      [] t = "If" /\ rama = "orelse" -> <<"(Rama else)">>
      [] t = "For"                   -> <<"(Dentro de for)">>
      [] t = "While"                 -> <<"(Dentro de while)">>
      [] OTHER                       -> <<>>

RECURSIVE Ruta(_, _)
\* the tags of the compound statements around the statement at line ln, the
\* outermost first, then its own description; <<>> when seq has no traced
\* statement at that line
Ruta(seq, ln) ==
    IF seq = <<>> THEN <<>>
    ELSE LET s == Head(seq)
             b == Ruta(s.body, ln)
             o == Ruta(s.orelse, ln)
         IN  IF s.ln = ln THEN DescripcionDe(s.t)
             ELSE IF b # <<>> THEN MarcaDe(s.t, "body") \o b
             ELSE IF o # <<>> THEN MarcaDe(s.t, "orelse") \o o
             ELSE Ruta(Tail(seq), ln)

\* C25: the line-cost trace is in visitation order: line numbers never
\* decrease along it; every entry carries the tags of the branches and loops
\* around its statement; the entry of a compound statement that is the whole
\* program comes first, untagged, before every entry of its body; the entries
\* of a then-branch come before the entries of the else-branch.
C25_TrazaEnOrden ==
    Exito =>
        LET traza == ultimo_analisis[1].desglose_costos
        IN  /\ \A x \in 1..(Len(traza) - 1) : traza[x].ln <= traza[x + 1].ln
            /\ \A x \in 1..Len(traza) : traza[x].desc = Ruta(ArbolUltimo, traza[x].ln)
            /\ Len(Sentencias) = 1 /\ Sentencias[1].t \in {"If", "For", "While"} =>
                   /\ traza[1].ln = Sentencias[1].ln
                   /\ \A x \in 2..Len(traza) :
                          traza[x].ln > Sentencias[1].ln /\ Len(traza[x].desc) >= 2
            /\ \A x, y \in 1..Len(traza) :
                   traza[x].desc[1] = "(Rama if)" /\ traza[y].desc[1] = "(Rama else)" => x < y

C25_Testigo ==
    /\ Exito
    /\ Len(Sentencias) = 1 /\ Sentencias[1].t = "If" /\ Sentencias[1].orelse # <<>>
    /\ LET traza == ultimo_analisis[1].desglose_costos
       IN  /\ Len(traza) = 4
           /\ traza[2].desc = <<"(Rama if)", "Inicializacion y test del bucle for">>
           /\ traza[3].desc = <<"(Rama if)", "(Dentro de for)", "Asignacion">>
           /\ traza[4].desc = <<"(Rama else)", "Asignacion">>

RECURSIVE Cuerpos(_)
\* the statement lists of a program: seq itself and every body and else branch
\* below it
Cuerpos(seq) ==
    {seq} \cup UNION {Cuerpos(seq[x].body) \cup Cuerpos(seq[x].orelse) : x \in 1..Len(seq)}

\* the best case of a statement list analysed on its own grows no faster in n
\* than its worst case
MejorBajoPeor(seq) ==
    \E vc \in {VisitSeq(NuevoVisitor, seq)} :
        Grado(Doit(vc.best_case_cost)) <= Grado(Doit(vc.worst_case_cost))

\* C26: the degree in n of the best-case cost never exceeds the degree in n of
\* the worst-case cost: for every body and branch of the program analysed on
\* its own, for the two cost functions of the whole program, and for the
\* powers of n reported as Omega and as O.
C26_OmegaBajoO ==
    Exito =>
        /\ \A seq \in Cuerpos(ArbolUltimo) : MejorBajoPeor(seq)
        /\ Grado(ultimo_analisis[1].funcion_mejor_caso) <= Grado(ultimo_analisis[1].funcion_peor_caso)
        /\ DominantePeor.k = "n**" /\ DominanteMejor.k = "n**" => DominanteMejor.d <= DominantePeor.d

C26_Testigo ==
    /\ Exito
    /\ Grado(ultimo_analisis[1].funcion_peor_caso) = 2
    /\ Grado(ultimo_analisis[1].funcion_mejor_caso) = 1
    /\ Devuelto.notacion_o = <<"O", Potencia(2)>>
    /\ Devuelto.notacion_omega = <<"Omega", Potencia(1)>>
    /\ HayNodoEn(ArbolUltimo, {"While"}) /\ HayNodoEn(ArbolUltimo, {"For"})

CotaDe(texto) ==
    CASE Tail(texto) = <<"1">> -> Potencia(0)
      [] Tail(texto) = <<"n">> -> Potencia(1)
      [] OTHER                 -> Potencia(texto[3])

\* C28: after a successful analizar, calcular_o(), calcular_omega() and
\* calcular_theta() report the bounds of the Complejidad the call returned:
\* the same power of n for O and for Omega, and a Theta bound exactly when the
\* Complejidad has one, with the same power.
C28_CalcularCoincide ==
    Exito =>
        /\ CotaDe(CalcularO) = Devuelto.notacion_o[2]
        /\ CotaDe(CalcularOmega) = Devuelto.notacion_omega[2]
        /\ CalcularTheta[1] = "Theta" <=> Devuelto.notacion_theta[1] = "Theta"
        /\ CalcularTheta[1] = "Theta" => CotaDe(CalcularTheta) = Devuelto.notacion_theta[2]

\* the text traducir_pseudocodigo_a_python gave back to the last parsear
CodigoRecibido == parseo[1].codigo[1]

\* C29: when the pseudocode passed validation and the translation came back
\* non-empty and syntactically valid Python, parsear returns the AST of exactly
\* that text, a text with a comment "# Error" included.
C29_PythonValidoDaAST ==
    parseo # <<>> /\ parseo[1].codigo # <<>> /\ CodigoRecibido # <<>>
        /\ ASTDeTexto(CodigoRecibido) # <<>> =>
        /\ parseo[1].exc = ""
        /\ parseo[1].ret = ASTDeTexto(CodigoRecibido)
        /\ parseo[1].ret[1]._codigo = CodigoRecibido

(***************************************************************************)
(* Properties of the LLMService cache                                      *)
(***************************************************************************)
\* the last construction found a cache entry with both fields, strictly
\* younger than 48 hours, whose file the store still held
EntradaVigente ==
    LET c == servicio[1].cache_antes
    IN  /\ c # <<>>
        /\ c[1].file_name # SinNombre
        /\ c[1].upload_time # SinFecha
        /\ servicio[1].hora - c[1].upload_time < HorasVigencia
        /\ c[1].file_name \in servicio[1].remotos_antes

\* C30: a construction uploads the book at most once and only when it found
\* no entry with both fields, younger than 48 hours and naming a file the
\* store still holds; a construction that completes has uploaded exactly in
\* that case (one that raises has uploaded nothing); after it the cache file
\* names the file in use; and when the entry was good the cache file is left
\* as it was.
C30_CacheDelLibro ==
    servicio # <<>> =>
        /\ servicio[1].subidas <= 1
        /\ servicio[1].subidas = 1 => ~EntradaVigente
        /\ servicio[1].exc = "" => (servicio[1].subidas = 1 <=> ~EntradaVigente)
        /\ servicio[1].exc # "" => servicio[1].subidas = 0
        /\ servicio[1].exc = "" =>
               /\ cache # <<>>
               /\ cache[1].file_name = servicio[1].archivo
               /\ servicio[1].archivo # SinNombre
        /\ EntradaVigente => cache = servicio[1].cache_antes

\* a construction at the hour its cache entry turns 48 hours old, the file
\* still in the store: the book is uploaded again
C30_Testigo ==
    /\ servicio # <<>>
    /\ servicio[1].exc = ""
    /\ servicio[1].subidas = 1
    /\ servicio[1].cache_antes # <<>>
    /\ servicio[1].cache_antes[1].file_name \in servicio[1].remotos_antes
    /\ servicio[1].cache_antes[1].upload_time # SinFecha
    /\ servicio[1].hora - servicio[1].cache_antes[1].upload_time = HorasVigencia
    /\ cache[1].file_name = servicio[1].archivo

====
